---- MODULE Spec2Model ----
(***************************************************************************)
(* Crawl orchestration of ForumDetailPageScraper                           *)
(* (src/src/service/forumDetailPageScraping.ts): worker construction and   *)
(* partition validation, thread selection, the per-thread page loop with   *)
(* its retry / recycle / abandon logic and the two checkpoint columns      *)
(* lastUpdatedPage and detailPageUpdateDate of forum_threads.              *)
(*                                                                         *)
(* Abstractions.                                                           *)
(*  - The STRING columns lastReplyDate / detailPageUpdateDate are compared  *)
(*    by the database as strings; a date is modelled by its rank in that   *)
(*    order (0 is the empty string the listing scraper stores when the     *)
(*    site gives no datetime).                                             *)
(*  - The browser handle is not a variable: an unusable browser only makes *)
(*    page.goto / getTotalPages fail, and both may fail at any time here.  *)
(*  - INTEGER column lastUpdatedPage: 0 stands for NULL; the code never    *)
(*    writes 0 and reads the column through its truthiness only.           *)
(*  - The page step (scrapePagePosts, saveAllPostsToDatabase with          *)
(*    processBatchMedia and the key functions of S3Service) is followed on *)
(*    one page in scenarios of its own, with the tables forum_posts and    *)
(*    forum_medias; in the crawl scenarios PageOk keeps its outcome only.  *)
(*  - A URL is a sequence of the substrings the code searches for; keys    *)
(*    are compared as the strings those sequences spell.                   *)
(*  - scrapeThreadDetailPage, the page loop that run() of                 *)
(*    src/unnamed/part_001 calls in place of scrapeAllThreadPages, is      *)
(*    followed on one thread in a scenario of its own, in the variant of   *)
(*    forumDetailPageScraping.ts and in the one of src/unnamed/part_001.   *)
(*  - The upload tasks of one batch are followed task by task in a         *)
(*    scenario of its own, for processBatchMedia of                        *)
(*    forumDetailPageScraping.ts, processBatchMedia and                    *)
(*    processStreamingBatches of src/unnamed/part_001 and                  *)
(*    processConcurrentUploads of S3Service. Their batch sizes             *)
(*    (BATCH_SIZE, MEDIA_BATCH_SIZE, MAX_CONCURRENT_UPLOADS) are scaled to *)
(*    1..MaxBatch; no branch of the code depends on their value.           *)
(***************************************************************************)
EXTENDS Integers, Sequences, FiniteSets, TLC

\* ------------------------------------------------------------------ bounds
NumProcs == 2
MaxThreadId == 3
MaxPages == 3
MaxDate == 1
MaxRuns == 2
MaxPosts == 2
MaxMedias == 2
MaxScrapes == 2
MaxGlitches == 4
MaxFaults == 1
MaxNameLen == 2
MaxUnique == 11
MaxDetailPages == 2
PostsPerPage == 2
MaxDetailRuns == 2
MaxDetailFaults == 2
MaxBatch == 2
MaxTasks == 3
MaxMonCalls == 3
MaxSamples == 2
MaxTaskIds == 2

\* ------------------------------------------------------- program constants
MAX_RETRIES == 5
PAGES_BEFORE_RESTART == 20
\* MAX_RETRIES of downloadFromAttachmentPage and of S3Service
ATTACHMENT_MAX_RETRIES == 3
UPLOAD_MAX_RETRIES == 3
BATCH_SIZE == 5
\* milliseconds: delay(1000 * attempt) in downloadFromAttachmentPage,
\* RETRY_DELAY of S3Service
ATTACHMENT_DELAY == 1000
RETRY_DELAY == 2000
\* MAX_RETRIES of the page loop of scrapeThreadDetailPage
DETAIL_MAX_RETRIES == 3
MIN_AVAILABLE_MEMORY_MB == 200

Procs == 0..(NumProcs - 1)
ThreadIds == 1..MaxThreadId
Dates == 0..MaxDate
\* a thread of LongPages pages lets one run cross PAGES_BEFORE_RESTART
LongPages == PAGES_BEFORE_RESTART + 1

\* ---------------------------------------------------------- JS numbers
\* A JavaScript number as far as the scraper uses it: an integer or NaN.
NaN == [nan |-> TRUE, v |-> 0]
Num(n) == [nan |-> FALSE, v |-> n]

JsLt(a, b) == ~a.nan /\ ~b.nan /\ a.v < b.v
JsGe(a, b) == ~a.nan /\ ~b.nan /\ a.v >= b.v
JsStrictEq(a, b) == ~a.nan /\ ~b.nan /\ a.v = b.v

\* a % b of JavaScript: NaN for a zero or NaN divisor, sign of the dividend
JsRem(a, b) ==
  IF a.nan \/ b.nan \/ b.v = 0 THEN NaN
  ELSE LET m == IF b.v < 0 THEN 0 - b.v ELSE b.v
       IN IF a.v >= 0 THEN Num(a.v % m) ELSE Num(0 - ((0 - a.v) % m))

DigitVal == [c \in {"0", "1", "2", "3", "4", "5", "6", "7", "8", "9"} |->
              CASE c = "0" -> 0 [] c = "1" -> 1 [] c = "2" -> 2 [] c = "3" -> 3
                [] c = "4" -> 4 [] c = "5" -> 5 [] c = "6" -> 6 [] c = "7" -> 7
                [] c = "8" -> 8 [] c = "9" -> 9]

RECURSIVE DigitPrefix(_, _, _)
\* value of the longest run of digits of s starting at position i
DigitPrefix(s, i, acc) ==
  IF i > Len(s) \/ s[i] \notin DOMAIN DigitVal THEN acc
  ELSE DigitPrefix(s, i + 1, acc * 10 + DigitVal[s[i]])

\* parseInt(s): optional sign, then decimal digits; NaN without a digit
ParseInt(s) ==
  LET neg == Len(s) >= 1 /\ s[1] = "-"
      start == IF Len(s) >= 1 /\ s[1] \in {"-", "+"} THEN 2 ELSE 1
  IN IF start > Len(s) \/ s[start] \notin DOMAIN DigitVal THEN NaN
     ELSE IF neg THEN Num(0 - DigitPrefix(s, start, 0))
     ELSE Num(DigitPrefix(s, start, 0))

\* process.env.X || dflt : an unset or empty variable takes the default
EnvOr(s, dflt) == IF s = <<>> THEN dflt ELSE s

\* ---------------------------------------------------------------- state
VARIABLES
  env,             \* env[w]: NODE_INDEX / NODE_COUNT strings of process w
  pc,              \* pc[w]: where process w stands in constructor / run()
  node,            \* node[w]: the parsed NODE_INDEX and NODE_COUNT fields
  threadsToUpdate, \* threadsToUpdate[w]: rows of run() still to be crawled
  cur,             \* cur[w]: thread, totalPages, startPage, pageNum, attempt
  pagesScraped,    \* pagesScraped[w]
  forum_threads,   \* table forum_threads, by threadId
  site,            \* site[t]: number of pages the forum shows for thread t
  launches,        \* launches[w]: how many times process w was started
  obs,             \* obs[w]: what the current thread run did last (observer)
  touched,         \* touched[t]: processes that fetched or wrote thread t
  lastAbandon,     \* lastAbandon[t]: how the latest run of t gave it up
  dom,             \* the post elements of one page of the forum, in page order
  forum_posts,     \* table forum_posts, rows in insertion order
  forum_medias,    \* table forum_medias, rows in id order
  activeUploads,   \* S3Service.activeUploads
  ing,             \* what the latest page step or upload did (observer)
  detail,          \* one thread crawled by scrapeThreadDetailPage
  pipe,            \* the upload tasks of one batch, task by task
  mon,             \* one scraper object and its memory-monitoring timers
  s3tasks          \* the tasks of one processConcurrentUploads call

crawlVars == <<env, pc, node, threadsToUpdate, cur, pagesScraped, forum_threads,
               site, launches, obs, touched, lastAbandon>>
pageVars == <<dom, forum_posts, forum_medias, activeUploads, ing>>
ingestVars == <<pageVars, detail, pipe, mon, s3tasks>>
vars == <<crawlVars, ingestVars>>

DigitChar == <<"0", "1", "2", "3", "4", "5", "6", "7", "8", "9">>

\* ============================================================ media URLs
\* A URL is its scheme and host (kind), the path before the last "/" (dir)
\* and the last path segment (name); dir and name are sequences of pieces,
\* and the pieces stand for the substrings the code looks for: an image
\* name, a video name, ".", "-", "-media", "_thumb".
\*   kind "http"  : parses as a URL
\*   kind "bad"   : starts with http but new URL() rejects it
\*   kind "pixel" : the 1x1 tracking GIF data URI
\* NoUrl is the empty string.
NameTokens == {"a", "jpg", "mp4", ".", "-", "-media", "_thumb"}
ImageNames == {"jpg"}
VideoNames == {"mp4"}
NoUrl == [kind |-> "", dir |-> <<>>, name |-> <<>>]
Url(kind, dir, name) == [kind |-> kind, dir |-> dir, name |-> name]

\* the path of a URL as one sequence of pieces
Whole(url) == url.dir \o <<"/">> \o url.name

\* s.includes(pat) on pieces
Includes(s, pat) ==
  \E i \in 0..(Len(s) - Len(pat)) :
    \A j \in 1..Len(pat) : s[i + j] = pat[j]

\* s.replace(pat, ""): the first occurrence only
RemoveFirst(s, pat) ==
  IF ~Includes(s, pat) THEN s
  ELSE LET i == CHOOSE k \in 0..(Len(s) - Len(pat)) :
                  /\ \A j \in 1..Len(pat) : s[k + j] = pat[j]
                  /\ \A m \in 0..(k - 1) : \E j \in 1..Len(pat) : s[m + j] # pat[j]
       IN SubSeq(s, 1, i) \o SubSeq(s, i + Len(pat) + 1, Len(s))

\* some ".ext" with ext among names occurs in s
HasExtension(s, names) ==
  \E i \in 1..(Len(s) - 1) : s[i] = "." /\ s[i + 1] \in names

\* some "-name", "_name" or "name-" with name among names occurs in s
HasJoinedName(s, names) ==
  \E i \in 1..Len(s) :
    /\ s[i] \in names
    /\ \/ i > 1 /\ s[i - 1] = "-"
       \/ i < Len(s) /\ s[i + 1] \in {"-", "-media"}

isImageUrl(s) == HasExtension(s, ImageNames)
isVideoUrl(s) == HasExtension(s, VideoNames)

shouldSkipUrl(url) == url.kind = "pixel"

isNotRawImg(url) ==
  /\ \E i \in 1..Len(Whole(url)) : Whole(url)[i] \in ImageNames \cup VideoNames
  /\ ~HasExtension(Whole(url), ImageNames \cup VideoNames)

extractFileExtensionFromAttachmentUrl(url) ==
  LET s == Whole(url)
  IN IF HasExtension(s, ImageNames) THEN <<".", "jpg">>
     ELSE IF HasJoinedName(s, ImageNames) THEN <<".", "jpg">>
     ELSE IF HasExtension(s, VideoNames) THEN <<".", "mp4">>
     ELSE IF HasJoinedName(s, VideoNames) THEN <<".", "mp4">>
     ELSE <<".", "jpg">>

RECURSIVE Dec(_)
\* the decimal digits of a number in a template string
Dec(n) == IF n < 10 THEN DigitChar[n + 1] ELSE Dec(n \div 10) \o DigitChar[(n % 10) + 1]

RECURSIVE Flat(_)
\* the string a sequence of pieces spells
Flat(s) == IF s = <<>> THEN "" ELSE Head(s) \o Flat(Tail(s))

\* positions of "." in s
Dots(s) == {i \in 1..Len(s) : s[i] = "."}
Max(S) == CHOOSE x \in S : \A y \in S : y <= x
Min(S) == CHOOSE x \in S : \A y \in S : x <= y

KeyThrew == <<"TypeError: Invalid URL">>

\* the key without the thumbnail suffix
KeyOf_NoSuffix(threadId, postId, uniqueId, base, isThumbnail, dotExt) ==
  <<"forum-media/", Dec(threadId), "/", Dec(postId), "/", Dec(uniqueId), "-">>
    \o base \o dotExt

\* forum-media/threadId/postId/uniqueId-filename[_thumb]<dotted extension>
KeyOf(threadId, postId, uniqueId, base, isThumbnail, dotExt) ==
  <<"forum-media/", Dec(threadId), "/", Dec(postId), "/", Dec(uniqueId), "-">>
    \o base \o (IF isThumbnail THEN <<"_thumb">> ELSE <<>>) \o dotExt

\* generateKey with uniqueId dropped from the key
generateKey_NoId(url, threadId, postId, isThumbnail, uniqueId) ==
  IF url.kind = "bad" THEN KeyThrew
  ELSE KeyOf(threadId, postId, 0, url.name, isThumbnail, <<".", "jpg">>)

generateKey(url, threadId, postId, isThumbnail, uniqueId) ==
  IF url.kind = "bad" THEN KeyThrew
  ELSE LET filename == IF url.name = <<>> THEN <<"media">> ELSE url.name
           popped == IF Dots(filename) = {} THEN filename
                     ELSE SubSeq(filename, Max(Dots(filename)) + 1, Len(filename))
           extension == IF popped = <<>> THEN <<"jpg">> ELSE popped
           noExt == RemoveFirst(filename, <<".">> \o extension)
           baseFilename == IF ~isThumbnail THEN RemoveFirst(noExt, <<"-media">>)
                           ELSE noExt
       IN KeyOf(threadId, postId, uniqueId, baseFilename, isThumbnail,
                <<".">> \o extension)

generateKeyWithExtension(url, threadId, postId, extension, isThumbnail, uniqueId) ==
  LET filename == IF url.name = <<>> THEN <<"media">> ELSE url.name
      first == IF Dots(filename) = {} THEN filename
               ELSE SubSeq(filename, 1, Min(Dots(filename)) - 1)
      named == IF first = <<>> THEN <<"media">> ELSE first
      baseFilename == IF ~isThumbnail THEN RemoveFirst(named, <<"-media">>)
                      ELSE named
  IN KeyOf(threadId, postId, uniqueId, baseFilename, isThumbnail, extension)

\* the two keys processBatchMedia derives for one media pair
PairKeys(baseUrl, threadId, postId, uniqueId) ==
  IF isNotRawImg(baseUrl)
  THEN LET extension == extractFileExtensionFromAttachmentUrl(baseUrl)
       IN [fullKey |-> generateKeyWithExtension(baseUrl, threadId, postId,
                                                extension, FALSE, uniqueId),
           thumbKey |-> generateKeyWithExtension(baseUrl, threadId, postId,
                                                 extension, TRUE, uniqueId)]
  ELSE [fullKey |-> generateKey(baseUrl, threadId, postId, FALSE, uniqueId),
        thumbKey |-> generateKey(baseUrl, threadId, postId, TRUE, uniqueId)]

\* https://<bucket>.s3.<region>.wasabisys.com/<key>
S3Url(key) == <<"https://bucket.s3.region.wasabisys.com/">> \o key

\* fullUrl || thumbUrl
DedupUrl(pair) == IF pair[1] # NoUrl THEN pair[1] ELSE pair[2]

\* DedupMedias that keeps every pair
DedupMedias_Keep(medias) == medias

\* scrapePagePosts: the urlMap keeps the first pair of each fullUrl || thumbUrl
DedupMedias(medias) ==
  LET kept == {i \in 1..Len(medias) :
                 \A j \in 1..(i - 1) : DedupUrl(medias[j]) # DedupUrl(medias[i])}
      Sel(k) == CHOOSE i \in kept : Cardinality({j \in kept : j < i}) = k - 1
  IN [k \in 1..Cardinality(kept) |-> medias[Sel(k)]]

\* filterPostMedias: drop a pair when either URL is a tracking pixel
FilterMedias(medias) ==
  SelectSeq(medias, LAMBDA p : ~shouldSkipUrl(p[1]) /\ ~shouldSkipUrl(p[2]))

\* ------------------------------------------------------------ forum_threads
\* detailPageUpdateDate is nullable with defaultValue null
NullDate == 0 - 1
NullPage == 0

\* NeedsUpdate with ">=" in place of ">" in the WHERE clause
NeedsUpdate_OrEqual(row) ==
  \/ row.detailPageUpdateDate = NullDate
  \/ /\ row.lastReplyDate # NullDate
     /\ row.detailPageUpdateDate # NullDate
     /\ row.lastReplyDate >= row.detailPageUpdateDate

\* the WHERE clause of getThreadsNeedingUpdate; SQL ">" on two nullable
\* columns is unknown (not true) when either is NULL
NeedsUpdate(row) ==
  \/ row.detailPageUpdateDate = NullDate
  \/ /\ row.lastReplyDate # NullDate
     /\ row.detailPageUpdateDate # NullDate
     /\ row.lastReplyDate > row.detailPageUpdateDate

\* Owns with "<=" in place of "===" in the filter
Owns_UpTo(threadId, nodeIndex, nodeCount) ==
  JsGe(nodeIndex, JsRem(Num(threadId), nodeCount))

\* Owns with the comparison against NODE_INDEX left out of the filter
Owns_NoIndex(threadId, nodeIndex, nodeCount) ==
  ~JsRem(Num(threadId), nodeCount).nan /\ ~nodeIndex.nan

\* the filter of getThreadsNeedingUpdate: threadId % NODE_COUNT === NODE_INDEX
Owns(threadId, nodeIndex, nodeCount) ==
  JsStrictEq(JsRem(Num(threadId), nodeCount), nodeIndex)

\* the lists getThreadsNeedingUpdate may return when its query succeeds:
\* the ForumThread instances of the selected rows, ORDER BY lastReplyDate
\* DESC; the order among equal dates is the database's
getThreadsNeedingUpdate(rows, nodeIndex, nodeCount) ==
  LET ids == {t \in DOMAIN rows :
                NeedsUpdate(rows[t]) /\ Owns(t, nodeIndex, nodeCount)}
      Row(t) ==
        [threadId |-> t,
         lastReplyDate |-> rows[t].lastReplyDate,
         lastUpdatedPage |-> rows[t].lastUpdatedPage,
         detailPageUpdateDate |-> rows[t].detailPageUpdateDate]
      OrderedDesc(q) ==
        \A i \in 1..Len(q) : \A j \in 1..Len(q) :
          i < j => q[i].lastReplyDate >= q[j].lastReplyDate
      SeqsOver(S) ==
        {q \in [1..Cardinality(S) -> S] :
           \A i \in 1..Cardinality(S) : \A j \in 1..Cardinality(S) :
             i # j => q[i] # q[j]}
  IN {q \in SeqsOver({Row(t) : t \in ids}) : OrderedDesc(q)}

\* the constructor's validation of the node configuration
InvalidNodeIndex(nodeIndex, nodeCount) ==
  JsLt(nodeIndex, Num(0)) \/ JsGe(nodeIndex, nodeCount)

\* StartPage that always begins at page 1
StartPage_First(thread) ==
  IF thread.lastUpdatedPage # NullPage THEN 1 ELSE 1

\* StartPage as the comment above the source line words it: lastUpdatedPage + 1
StartPage_Next(thread) ==
  IF thread.lastUpdatedPage # NullPage THEN thread.lastUpdatedPage + 1 ELSE 1

\* const startPage = thread.lastUpdatedPage ? thread.lastUpdatedPage : 1
StartPage(thread) ==
  IF thread.lastUpdatedPage # NullPage THEN thread.lastUpdatedPage ELSE 1

\* -------------------------------------------------------------- observers
NoAbandon == [page |-> 0, total |-> 0, fresh |-> FALSE]
NoThread ==
  [threadId |-> 0, lastReplyDate |-> 0, lastUpdatedPage |-> NullPage,
   detailPageUpdateDate |-> NullDate]
NoCur ==
  [thread |-> NoThread, totalPages |-> 0, startPage |-> 0, pageNum |-> 0,
   attempt |-> 0, after |-> NoAbandon]
\* last, page: outcome and page number of the latest page attempt of the run
\*   "none" | "ok" | "swallowed" (scrapePagePosts or saveAllPostsToDatabase
\*   caught its own error and the attempt went on) | "failed" (catch block)
\* f2 / other: failed attempts on page 2 / a failure anywhere else in the run
\* result: "none" | "selected" / "threw" (getThreadsNeedingUpdate returned the
\*   query's rows / run() caught an error before them) | "running"
\*   | "completed" (detailPageUpdateDate written)
\*   | "unsaved" (that write failed) | "abandoned" (retries exhausted)
\*   | "aborted" (restartBrowser threw inside the catch block)
NoObs ==
  [last |-> "none", page |-> 0, f2 |-> 0, other |-> FALSE, result |-> "none"]
NoNode == [NODE_INDEX |-> NaN, NODE_COUNT |-> NaN]

\* ------------------------------------------------------------- constructor
\* new ForumDetailPageScraper(): parse the environment, validate, or throw
Construct(w) ==
  /\ pc[w] = "new"
  /\ LET idx == ParseInt(EnvOr(env[w].NODE_INDEX, <<"0">>))
         cnt == ParseInt(EnvOr(env[w].NODE_COUNT, <<"1">>))
     IN IF InvalidNodeIndex(idx, cnt)
        THEN /\ pc' = [pc EXCEPT ![w] = "threw"]
             /\ node' = node
        ELSE /\ pc' = [pc EXCEPT ![w] = "constructed"]
             /\ node' = [node EXCEPT ![w] = [NODE_INDEX |-> idx, NODE_COUNT |-> cnt]]
  /\ launches' = [launches EXCEPT ![w] = @ + 1]
  /\ pagesScraped' = [pagesScraped EXCEPT ![w] = 0]
  /\ UNCHANGED ingestVars
  /\ UNCHANGED <<env, threadsToUpdate, cur, forum_threads, site, obs, touched,
                 lastAbandon>>

\* ------------------------------------------------------------------- run()
\* run(): initialize(), getThreadsNeedingUpdate(); an initialize() that throws
\* and an empty list both end the run through the finally block
RunStart(w) ==
  /\ pc[w] = "constructed"
  /\ \E how \in {"initThrows", "queryThrows", "ok"} :
       LET lists == IF how = "ok"
                    THEN getThreadsNeedingUpdate(forum_threads,
                           node[w].NODE_INDEX, node[w].NODE_COUNT)
                    ELSE {<<>>}
       IN \E q \in lists :
            /\ threadsToUpdate' = [threadsToUpdate EXCEPT ![w] = q]
            /\ pc' = [pc EXCEPT ![w] = IF q = <<>> THEN "closed" ELSE "next"]
            /\ obs' = [obs EXCEPT ![w] =
                 [NoObs EXCEPT !.result = IF how = "ok" THEN "selected" ELSE "threw"]]
  /\ cur' = [cur EXCEPT ![w] = NoCur]
  /\ UNCHANGED ingestVars
  /\ UNCHANGED <<env, node, pagesScraped, forum_threads, site, launches,
                 touched, lastAbandon>>

\* getTotalPages: the page count of the site, or 1 when anything throws
getTotalPages(t, ok) == IF ok THEN site[t] ELSE 1

\* scrapeAllThreadPages up to the first iteration of the page loop
StartThread(w) ==
  /\ pc[w] = "next"
  /\ threadsToUpdate[w] # <<>>
  /\ LET thread == Head(threadsToUpdate[w])
         t == thread.threadId
     IN \E ok \in BOOLEAN :
          LET totalPages == getTotalPages(t, ok)
              startPage == StartPage(thread)
          IN /\ cur' = [cur EXCEPT ![w] =
                          [thread |-> thread, totalPages |-> totalPages,
                           startPage |-> startPage, pageNum |-> startPage,
                           attempt |-> 1, after |-> lastAbandon[t]]]
             /\ pc' = [pc EXCEPT ![w] =
                         IF startPage <= totalPages THEN "page" ELSE "finish"]
             /\ obs' = [obs EXCEPT ![w] =
                          [NoObs EXCEPT !.result = "running", !.other = ~ok]]
             /\ touched' = [touched EXCEPT ![t] = @ \cup {w}]
             /\ lastAbandon' = [lastAbandon EXCEPT ![t] = NoAbandon]
  /\ threadsToUpdate' = [threadsToUpdate EXCEPT ![w] = Tail(@)]
  /\ UNCHANGED ingestVars
  /\ UNCHANGED <<env, node, pagesScraped, forum_threads, site, launches>>

\* restartBrowser: pagesScraped is reset after browser.close() and the temp
\* directory cleanup and before initialize(); any of them may throw
RestartOutcomes == {"ok", "threwEarly", "threwLate"}
restartBrowser(n, r) == IF r = "threwEarly" THEN n ELSE 0

\* ForumThread.update({lastUpdatedPage: pageNum}, {where: {threadId}})
UpdateLastUpdatedPage(rows, t, pageNum) ==
  [rows EXCEPT ![t].lastUpdatedPage = pageNum]

\* detailPageUpdateDate taken from the row as it is when the crawl ends
UpdateDetailPageUpdateDate_FromRow(rows, thread) ==
  [rows EXCEPT ![thread.threadId].detailPageUpdateDate =
                 rows[thread.threadId].lastReplyDate]

\* ForumThread.update({detailPageUpdateDate: thread.lastReplyDate}, ...)
UpdateDetailPageUpdateDate(rows, thread) ==
  [rows EXCEPT ![thread.threadId].detailPageUpdateDate = thread.lastReplyDate]

\* GiveUp without any retry
GiveUp_AtOnce(attempt) == ~(attempt < 1)

\* ThreadEnd with the error of a failed thread passed on to run()
ThreadEnd_Rethrow(result) ==
  IF result \in {"abandoned", "aborted", "unsaved"} THEN "closed" ELSE "pace"

\* where run() stands once scrapeAllThreadPages is over: its return statement
\* and its outer catch both hand control back to the thread loop of run()
ThreadEnd(result) == "pace"

\* catch block: if (attempt < MAX_RETRIES) { recycle, retry } else { give up }
GiveUp(attempt) == ~(attempt < MAX_RETRIES)

\* AfterPage that steps over a page
AfterPage_Skip(c) ==
  [c EXCEPT !.pageNum = @ + 2, !.attempt = 1]

\* the loop heads: for (pageNum...; pageNum <= totalPages; pageNum++) around
\* for (attempt...; attempt <= MAX_RETRIES && !pageLoadSuccess; attempt++)
AfterPage(c) ==
  [c EXCEPT !.pageNum = @ + 1, !.attempt = 1]

\* One attempt on the current page whose try block runs to its end: goto,
\* scrapePagePosts and saveAllPostsToDatabase (either may have caught an error
\* of its own and returned normally), the lastUpdatedPage update, the counter,
\* and the recycle at PAGES_BEFORE_RESTART.
PageOk(w) ==
  /\ pc[w] = "page"
  /\ LET c == cur[w]
         t == c.thread.threadId
         n == pagesScraped[w] + 1
     IN /\ \E kind \in {"ok", "swallowed"} :
             obs' = [obs EXCEPT ![w].last = kind,
                                ![w].page = c.pageNum,
                                ![w].other = @ \/ kind = "swallowed"]
        /\ forum_threads' = UpdateLastUpdatedPage(forum_threads, t, c.pageNum)
        /\ pagesScraped' = [pagesScraped EXCEPT ![w] =
             IF n >= PAGES_BEFORE_RESTART THEN restartBrowser(n, "ok") ELSE n]
        /\ cur' = [cur EXCEPT ![w] = AfterPage(c)]
        /\ pc' = [pc EXCEPT ![w] =
             IF c.pageNum + 1 <= c.totalPages THEN "page" ELSE "finish"]
        /\ touched' = [touched EXCEPT ![t] = @ \cup {w}]
  /\ UNCHANGED ingestVars
  /\ UNCHANGED <<env, node, threadsToUpdate, site, launches, lastAbandon>>

\* One attempt that ends in the catch block. It threw at goto, at the
\* lastUpdatedPage update, or in the recycle at PAGES_BEFORE_RESTART (after the
\* update and the counter); the catch block recycles, then retries the page, or
\* gives the thread up after MAX_RETRIES attempts; a restartBrowser that throws
\* there leaves scrapeAllThreadPages through its outer catch.
PageFail(w) ==
  /\ pc[w] = "page"
  /\ LET c == cur[w]
         t == c.thread.threadId
     IN \E where \in {"goto", "update", "recycle"} :
        \E r0 \in RestartOutcomes \ {"ok"} :
        \E r \in RestartOutcomes :
          LET n == IF where = "recycle"
                   THEN restartBrowser(pagesScraped[w] + 1, r0)
                   ELSE pagesScraped[w]
              last == GiveUp(c.attempt)
          IN /\ where = "recycle" => pagesScraped[w] + 1 >= PAGES_BEFORE_RESTART
             /\ where # "recycle" => r0 = "threwEarly"
             /\ forum_threads' =
                  IF where = "recycle"
                  THEN UpdateLastUpdatedPage(forum_threads, t, c.pageNum)
                  ELSE forum_threads
             /\ pagesScraped' = [pagesScraped EXCEPT ![w] =
                  IF r = "ok" /\ last THEN restartBrowser(n, r) + 1
                  ELSE restartBrowser(n, r)]
             /\ cur' = [cur EXCEPT ![w].attempt =
                  IF r = "ok" /\ ~last THEN @ + 1 ELSE @]
             /\ pc' = [pc EXCEPT ![w] =
                  IF r = "ok" /\ ~last THEN "page"
                  ELSE ThreadEnd(IF last THEN "abandoned" ELSE "aborted")]
             /\ obs' = [obs EXCEPT
                  ![w].last = "failed",
                  ![w].page = c.pageNum,
                  ![w].f2 = IF c.pageNum = 2 THEN @ + 1 ELSE @,
                  ![w].other = @ \/ c.pageNum # 2 \/ r # "ok",
                  ![w].result = IF last THEN "abandoned"
                                ELSE IF r # "ok" THEN "aborted" ELSE @]
             /\ lastAbandon' = [lastAbandon EXCEPT ![t] =
                  IF last
                  THEN [page |-> c.pageNum, total |-> c.totalPages,
                        fresh |-> c.thread.lastUpdatedPage = NullPage]
                  ELSE @]
             /\ touched' = [touched EXCEPT ![t] = @ \cup {w}]
  /\ UNCHANGED ingestVars
  /\ UNCHANGED <<env, node, threadsToUpdate, site, launches>>

\* after the page loop: detailPageUpdateDate := thread.lastReplyDate; an update
\* that throws is caught by the outer catch
FinishThread(w) ==
  /\ pc[w] = "finish"
  /\ \E ok \in BOOLEAN :
       /\ forum_threads' =
            IF ok THEN UpdateDetailPageUpdateDate(forum_threads, cur[w].thread)
            ELSE forum_threads
       /\ obs' = [obs EXCEPT ![w].result = IF ok THEN "completed" ELSE "unsaved"]
       /\ pc' = [pc EXCEPT ![w] = ThreadEnd(IF ok THEN "completed" ELSE "unsaved")]
  /\ touched' = [touched EXCEPT ![cur[w].thread.threadId] = @ \cup {w}]
  /\ UNCHANGED ingestVars
  /\ UNCHANGED <<env, node, threadsToUpdate, cur, pagesScraped, site, launches,
                 lastAbandon>>

\* run(): scrapeAllThreadPages has returned; await this.delay(1000)
Pace(w) ==
  /\ pc[w] = "pace"
  /\ pc' = [pc EXCEPT ![w] = "next"]
  /\ cur' = [cur EXCEPT ![w] = NoCur]
  /\ obs' = [obs EXCEPT ![w] = NoObs]
  /\ UNCHANGED ingestVars
  /\ UNCHANGED <<env, node, threadsToUpdate, pagesScraped, forum_threads,
                 site, launches, touched, lastAbandon>>

\* run(): the thread loop is over; finally { await this.close() }
Close(w) ==
  /\ pc[w] = "next"
  /\ threadsToUpdate[w] = <<>>
  /\ pc' = [pc EXCEPT ![w] = "closed"]
  /\ UNCHANGED ingestVars
  /\ UNCHANGED <<env, node, threadsToUpdate, cur, pagesScraped, forum_threads,
                 site, launches, obs, touched, lastAbandon>>

\* the operator starts the process again with the same environment
Relaunch(w) ==
  /\ pc[w] = "closed"
  /\ launches[w] < MaxRuns
  /\ pc' = [pc EXCEPT ![w] = "new"]
  /\ node' = [node EXCEPT ![w] = NoNode]
  /\ obs' = [obs EXCEPT ![w] = NoObs]
  /\ UNCHANGED ingestVars
  /\ UNCHANGED <<env, threadsToUpdate, cur, pagesScraped, forum_threads, site,
                 launches, touched, lastAbandon>>

\* ForumThreadLatestUpdateChecker.updateThreadsInDatabase: the listing shows a
\* newer last reply for thread t (the thread may have gained a page)
UpdateLastReplyDate(t) ==
  /\ forum_threads[t].lastReplyDate < MaxDate
  /\ forum_threads' = [forum_threads EXCEPT ![t].lastReplyDate = @ + 1]
  /\ \E grow \in BOOLEAN :
       site' = [site EXCEPT ![t] = IF grow /\ @ < MaxPages THEN @ + 1 ELSE @]
  /\ UNCHANGED ingestVars
  /\ UNCHANGED <<env, pc, node, threadsToUpdate, cur, pagesScraped, launches,
                 obs, touched, lastAbandon>>

\* ======================================================= one page of posts
\* PageOk keeps only the outcome of its page step; the step itself
\* (scrapePagePosts, then saveAllPostsToDatabase) is followed here on one page
\* of the thread IngestThread, whose posts the site may edit between scrapes.
IngestThread == 1
PostIds == 1..MaxPosts

RawImage == Url("http", <<>>, <<"a", ".", "jpg">>)
RawVideo == Url("http", <<>>, <<"a", ".", "mp4">>)
Attachment == Url("http", <<"a", "-", "jpg", ".", "a">>, <<>>)
Thumbnail == Url("http", <<>>, <<"a", "-", "a", ".", "jpg">>)
BrokenImage == Url("bad", <<>>, <<"a", ".", "jpg">>)
Pixel == Url("pixel", <<>>, <<>>)

\* the lists of [fullUrl, thumbUrl] pairs a post element can yield
MediaLists ==
  LET MediaPairs ==
        {<<RawImage, NoUrl>>, <<RawVideo, NoUrl>>, <<Attachment, Thumbnail>>,
         <<BrokenImage, NoUrl>>, <<Pixel, NoUrl>>}
  IN UNION {[1..n -> MediaPairs] : n \in 0..MaxMedias}

NoDom == <<>>
NoFault ==
  [extractOk |-> TRUE, destroyOk |-> TRUE, failed |-> {}, glitches |-> 0,
   dbDown |-> {}, threadId |-> IngestThread]
NoIngest ==
  [scrapes |-> 0, kind |-> "none", fault |-> NoFault, dom |-> NoDom,
   posts |-> <<>>,
   had |-> <<>>, before |-> <<>>, uploads |-> <<>>, stored |-> {}, map |-> <<>>,
   threw |-> FALSE,
   saved |-> {}, attempts |-> 0, result |-> "none", waits |-> <<>>,
   via |-> "saveAllPostsToDatabase", bucket |-> {}]

RECURSIVE Concat(_)
Concat(ss) == IF ss = <<>> THEN <<>> ELSE Head(ss) \o Concat(Tail(ss))

\* scrapePagePosts: one PostData per post element, in page order
scrapePagePosts(d) ==
  [i \in 1..Len(d) |->
     [postId |-> d[i].postId, content |-> d[i].content,
      medias |-> FilterMedias(DedupMedias(d[i].medias))]]

\* downloadFromAttachmentPage whose loop runs one attempt more
AttachmentGiveUp_Late(attempt) == attempt > ATTACHMENT_MAX_RETRIES + 1

\* for (attempt = 1; attempt <= MAX_RETRIES; attempt++)
AttachmentGiveUp(attempt) == attempt > ATTACHMENT_MAX_RETRIES

RECURSIVE AttachmentAttempt(_, _, _)
\* the attempt-th pass of the loop when the first glitches attempts fail;
\* waits lists the delays slept so far: if (attempt > 1) delay(1000 * attempt)
AttachmentAttempt(attempt, glitches, waits) ==
  IF AttachmentGiveUp(attempt)
  THEN [result |-> "null", attempts |-> attempt - 1, waits |-> waits]
  ELSE LET slept == IF attempt > 1
                    THEN Append(waits, ATTACHMENT_DELAY * attempt)
                    ELSE waits
       IN IF attempt > glitches
          THEN [result |-> "buffer", attempts |-> attempt, waits |-> slept]
          ELSE AttachmentAttempt(attempt + 1, glitches, slept)

downloadFromAttachmentPage(glitches) == AttachmentAttempt(1, glitches, <<>>)

\* processBatchMedia: the pair is passed over by `continue`
Skipped(pair) ==
  /\ pair[1] # NoUrl \/ pair[2] # NoUrl
  /\ shouldSkipUrl(pair[1]) \/ shouldSkipUrl(pair[2])

\* uniqueId counted on from the rows the table holds
UniqueIdOf_CountedOn(medias, k) ==
  Len(forum_medias) + Cardinality({j \in 1..(k - 1) : ~Skipped(medias[j])})

\* processBatchMedia: uniqueId when the k-th pair of a post is reached
UniqueIdOf(medias, k) ==
  Cardinality({j \in 1..(k - 1) : ~Skipped(medias[j])})

\* processBatchMedia: allMediaTasks of one post
MediaTasksOf(post, threadId) ==
  Concat([k \in 1..Len(post.medias) |->
    LET pair == post.medias[k]
        baseUrl == DedupUrl(pair)
        keys == PairKeys(baseUrl, threadId, post.postId,
                         UniqueIdOf(post.medias, k))
    IN IF (pair[1] # NoUrl \/ pair[2] # NoUrl) /\ ~Skipped(pair)
       THEN <<[postId |-> post.postId, fullSizeUrl |-> pair[1],
               thumbUrl |-> pair[2], fullKey |-> keys.fullKey,
               thumbKey |-> keys.thumbKey]>>
       ELSE <<>>])

AllMediaTasks(batch, threadId) ==
  Concat([i \in 1..Len(batch) |-> MediaTasksOf(batch[i], threadId)])

\* generateKey threw while the tasks of the batch were prepared
KeyDerivationThrew(tasks) ==
  \E i \in 1..Len(tasks) : tasks[i].fullKey = KeyThrew

\* HasThumb taken from the full-size URL
HasThumb_FromFull(task) == task.fullSizeUrl # NoUrl

\* const hasThumb = !!task.thumbUrl
HasThumb(task) == task.thumbUrl # NoUrl

\* processBatchMedia: uploadTasks
UploadTasks(tasks) ==
  Concat([i \in 1..Len(tasks) |->
    (IF tasks[i].fullSizeUrl # NoUrl
     THEN <<[postId |-> tasks[i].postId, url |-> tasks[i].fullSizeUrl,
             key |-> tasks[i].fullKey, isThumb |-> 0,
             hasThumb |-> HasThumb(tasks[i])]>>
     ELSE <<>>)
    \o
    (IF tasks[i].thumbUrl # NoUrl
     THEN <<[postId |-> tasks[i].postId, url |-> tasks[i].thumbUrl,
             key |-> tasks[i].thumbKey, isThumb |-> 1,
             hasThumb |-> HasThumb(tasks[i])]>>
     ELSE <<>>)])

\* one upload task: download (through the attachment page when the URL is not
\* a raw file), then PutObject; failed holds the keys whose download or
\* PutObject fails
UploadSucceeds(up, failed, glitches) ==
  /\ up.key \notin failed
  /\ isNotRawImg(up.url) => downloadFromAttachmentPage(glitches).result = "buffer"

\* processBatchMedia: the results of the upload tasks that succeeded
Uploaded(ups, failed, glitches) ==
  SelectSeq(ups, LAMBDA up : UploadSucceeds(up, failed, glitches))

\* processBatchMedia: postMediaMap.get(postId) || []
PostMediaMap(done, postId) ==
  Concat([i \in 1..Len(done) |->
    IF done[i].isThumb = 0 /\ done[i].postId = postId
    THEN <<[s3Url |-> S3Url(done[i].key), hasThumbnail |-> done[i].hasThumb]>>
    ELSE <<>>])

\* ForumPost.upsert that always inserts
Upsert_Insert(rows, row) == Append(rows, row)

\* ForumPost.upsert: postId is the primary key
Upsert(rows, row) ==
  IF \E i \in 1..Len(rows) : rows[i].postId = row.postId
  THEN [i \in 1..Len(rows) |-> IF rows[i].postId = row.postId THEN row ELSE rows[i]]
  ELSE Append(rows, row)

\* ForumMedia.destroy that deletes nothing
DestroyMedia_Keep(rows, threadId, postIds) == rows

\* ForumMedia.destroy({ where: { threadId, postId in postIds } })
DestroyMedia(rows, threadId, postIds) ==
  SelectSeq(rows, LAMBDA r : ~(r.threadId = threadId /\ r.postId \in postIds))

\* the type saveAllPostsToDatabase gives a stored asset
MediaType(s3Url) ==
  IF isImageUrl(s3Url) THEN "img" ELSE IF isVideoUrl(s3Url) THEN "mov" ELSE "null"

\* the ForumMedia rows saveAllPostsToDatabase creates for one post
MediaRows(threadId, postId, entries) ==
  Concat([i \in 1..Len(entries) |->
    IF /\ Head(entries[i].s3Url) = Head(S3Url(<<>>))
       /\ MediaType(entries[i].s3Url) # "null"
       /\ ~Includes(entries[i].s3Url, <<"_thumb">>)
    THEN <<[threadId |-> threadId, postId |-> postId,
            link |-> entries[i].s3Url, type |-> MediaType(entries[i].s3Url),
            existThumb |-> IF entries[i].hasThumbnail THEN 1 ELSE 0]>>
    ELSE <<>>])

RECURSIVE UpsertAll(_, _, _, _)
\* the upserts of a batch; those of the posts in dbDown are rejected
UpsertAll(rows, batch, threadId, dbDown) ==
  IF batch = <<>> THEN rows
  ELSE UpsertAll(IF Head(batch).postId \in dbDown THEN rows
                 ELSE Upsert(rows, [postId |-> Head(batch).postId,
                                    threadId |-> threadId,
                                    content |-> Head(batch).content]),
                 Tail(batch), threadId, dbDown)

RECURSIVE SaveBatches(_, _, _, _)
\* saveAllPostsToDatabase: the loop over batches of BATCH_SIZE posts, from
\* the i-th post on; db holds both tables and what the call did so far
SaveBatches(posts, i, db, f) ==
  IF i > Len(posts) THEN db
  ELSE LET last == IF i + BATCH_SIZE - 1 < Len(posts) THEN i + BATCH_SIZE - 1
                   ELSE Len(posts)
           batch == SubSeq(posts, i, last)
           tasks == AllMediaTasks(batch, f.threadId)
       IN IF KeyDerivationThrew(tasks)
          THEN [db EXCEPT !.threw = TRUE]
          ELSE LET ups == UploadTasks(tasks)
                   done == Uploaded(ups, f.failed, f.glitches)
                   map == [k \in 1..Len(batch) |->
                             PostMediaMap(done, batch[k].postId)]
               IN SaveBatches(posts, i + BATCH_SIZE,
                    [posts |-> UpsertAll(db.posts, batch, f.threadId, f.dbDown),
                     medias |-> db.medias \o
                       Concat([k \in 1..Len(batch) |->
                         IF batch[k].postId \in f.dbDown THEN <<>>
                         ELSE MediaRows(f.threadId, batch[k].postId, map[k])]),
                     uploads |-> db.uploads \o ups,
                     stored |-> db.stored \cup
                                {done[k].key : k \in 1..Len(done)},
                     map |-> db.map \o map,
                     saved |-> db.saved \cup
                               {batch[k].postId : k \in 1..Len(batch)},
                     threw |-> FALSE],
                    f)

saveAllPostsToDatabase(posts, rows, medias, f) ==
  LET start == [posts |-> rows, medias |-> medias, uploads |-> <<>>,
                stored |-> {}, map |-> <<>>, saved |-> {}, threw |-> FALSE]
  IN IF ~f.destroyOk THEN [start EXCEPT !.threw = TRUE]
     ELSE SaveBatches(posts, 1,
            [start EXCEPT !.medias =
               DestroyMedia(medias, f.threadId,
                            {posts[k].postId : k \in 1..Len(posts)})],
            f)

\* the keys of the upload tasks the page can lead to
UploadKeys(posts, threadId) ==
  UNION {LET tasks == AllMediaTasks(<<posts[k]>>, threadId)
         IN IF KeyDerivationThrew(tasks) THEN {}
            ELSE {UploadTasks(tasks)[i].key : i \in 1..Len(UploadTasks(tasks))} :
         k \in 1..Len(posts)}

\* how many things go wrong in one page step
FaultCount(f) ==
  (IF f.extractOk THEN 0 ELSE 1) + (IF f.destroyOk THEN 0 ELSE 1)
  + Cardinality(f.failed) + (IF f.glitches > 0 THEN 1 ELSE 0)
  + Cardinality(f.dbDown)

\* the faults one page step meets, up to MaxFaults at once: the DOM
\* evaluation fails, the DELETE fails, the transfers of the keys in failed
\* fail, the attachment page fails glitches times in a row, the database
\* rejects the rows of the posts in dbDown
Faults(d, threadId) ==
  LET keys == UploadKeys(scrapePagePosts(d), threadId)
  IN {f \in [extractOk : BOOLEAN, destroyOk : BOOLEAN,
             failed : {x \in SUBSET keys : Cardinality(x) <= MaxFaults},
             glitches : 0..MaxGlitches,
             dbDown : {x \in SUBSET PostIds : Cardinality(x) <= MaxFaults},
             threadId : {threadId}] :
        FaultCount(f) <= MaxFaults}

\* the page step of scrapeAllThreadPages: scrapePagePosts, then
\* saveAllPostsToDatabase
IngestPage ==
  /\ dom # NoDom
  /\ ing.via = "saveAllPostsToDatabase"
  /\ ing.scrapes < MaxScrapes
  /\ \E f \in Faults(dom, IngestThread) :
       \E posts \in {IF f.extractOk THEN scrapePagePosts(dom) ELSE <<>>} :
       \E out \in {saveAllPostsToDatabase(posts, forum_posts, forum_medias, f)} :
       LET tried == \E i \in 1..Len(out.uploads) : isNotRawImg(out.uploads[i].url)
           download == downloadFromAttachmentPage(f.glitches)
       IN /\ forum_posts' = out.posts
          /\ forum_medias' = out.medias
          /\ ing' = [scrapes |-> ing.scrapes + 1, kind |-> "page",
                     fault |-> f, dom |-> dom, had |-> forum_posts,
                     before |-> forum_medias, posts |-> posts,
                     uploads |-> out.uploads, stored |-> out.stored,
                     map |-> out.map, threw |-> out.threw,
                     saved |-> out.saved,
                     attempts |-> IF tried THEN download.attempts ELSE 0,
                     result |-> IF tried THEN download.result ELSE "none",
                     waits |-> IF tried THEN download.waits ELSE <<>>,
                     via |-> ing.via,
                     bucket |-> ing.bucket \cup out.stored]
  /\ UNCHANGED <<dom, activeUploads, detail, pipe, mon, s3tasks>>
  /\ UNCHANGED crawlVars

\* ------------------------------------------------- savePostsToDatabase
\* The page step of scrapeThreadDetailPage saves through savePostsToDatabase:
\*   "current"  forumDetailPageScraping.ts: the posts without a forum_posts
\*              row; DELETE of the img rows, then the batches
\*   "earlier"  part_001:3112: every post of the page; DELETE of the img
\*              rows, then the batches
\*   "separate" part_001:4796: every post of the page; the uploads, then
\*              deleteS3ImagesByThreadAndPost per post, then the upserts, the
\*              DELETEs and the INSERTs in one Promise.allSettled
SaveVariants == {"current", "earlier", "separate"}

\* ForumMedia.destroy({ where: { threadId, postId in postIds, type: "img" } })
DestroyImages(rows, threadId, postIds) ==
  SelectSeq(rows, LAMBDA r : ~(/\ r.threadId = threadId
                               /\ r.postId \in postIds
                               /\ r.type = "img"))

\* savePostsToDatabase of forumDetailPageScraping.ts and of part_001:3112
savePostsToDatabase(posts, rows, medias, f) ==
  LET start == [posts |-> rows, medias |-> medias, uploads |-> <<>>,
                stored |-> {}, map |-> <<>>, saved |-> {}, threw |-> FALSE]
  IN IF ~f.destroyOk THEN [start EXCEPT !.threw = TRUE]
     ELSE SaveBatches(posts, 1,
            [start EXCEPT !.medias =
               DestroyImages(medias, f.threadId,
                             {posts[k].postId : k \in 1..Len(posts)})],
            f)

\* S3FileList.isImageFile on the file name of a key
isImageFile(key) == HasExtension(key, ImageNames)

\* S3FileList.deletePostFiles: the image objects under
\* forum-media/threadId/postId/ are deleted
deletePostFiles(bucket, threadId, postId) ==
  {key \in bucket : ~(/\ key[2] = Dec(threadId)
                       /\ key[4] = Dec(postId)
                       /\ isImageFile(key))}

RECURSIVE deleteS3Images(_, _, _)
\* deleteS3ImagesByThreadAndPost for each post in turn
deleteS3Images(bucket, threadId, posts) ==
  IF posts = <<>> THEN bucket
  ELSE deleteS3Images(deletePostFiles(bucket, threadId, Head(posts).postId),
                      threadId, Tail(posts))

\* the rows the INSERTs of savePostsToDatabase of part_001:4796 add
FreshRows(posts, map, f) ==
  Concat([k \in 1..Len(posts) |->
    IF posts[k].postId \in f.dbDown THEN <<>>
    ELSE MediaRows(f.threadId, posts[k].postId, map[k])])

\* savePostsToDatabase of part_001:4796. purge: the listing and the deletes
\* of deleteS3ImagesByThreadAndPost went through; lost: the img rows among
\* the fresh ones that were inserted before the DELETE of their post ran
savePostsSeparately(posts, rows, medias, bucket, f, purge, lost) ==
  LET start == [posts |-> rows, medias |-> medias, uploads |-> <<>>,
                stored |-> {}, map |-> <<>>, saved |-> {}, threw |-> FALSE,
                bucket |-> bucket]
      tasks == AllMediaTasks(posts, f.threadId)
      ups == UploadTasks(tasks)
      done == Uploaded(ups, f.failed, f.glitches)
      stored == {done[k].key : k \in 1..Len(done)}
      map == [k \in 1..Len(posts) |-> PostMediaMap(done, posts[k].postId)]
      fresh == FreshRows(posts, map, f)
      kept == IF f.destroyOk
              THEN DestroyImages(medias, f.threadId,
                                 {posts[k].postId : k \in 1..Len(posts)})
              ELSE medias
  IN IF KeyDerivationThrew(tasks) THEN [start EXCEPT !.threw = TRUE]
     ELSE [posts |-> UpsertAll(rows, posts, f.threadId, f.dbDown),
           medias |-> kept \o
             Concat([i \in 1..Len(fresh) |->
                       IF i \in lost THEN <<>> ELSE <<fresh[i]>>]),
           uploads |-> ups, stored |-> stored, map |-> map,
           saved |-> {posts[k].postId : k \in 1..Len(posts)} \ f.dbDown,
           threw |-> FALSE,
           bucket |-> IF purge
                      THEN deleteS3Images(bucket \cup stored, f.threadId, posts)
                      ELSE bucket \cup stored]

\* the img rows a DELETE issued together with the INSERTs may take with it
LostChoices(variant, posts, f) ==
  IF variant # "separate" \/ ~f.destroyOk THEN {{}}
  ELSE LET tasks == AllMediaTasks(posts, f.threadId)
           done == Uploaded(UploadTasks(tasks), f.failed, f.glitches)
           map == [k \in 1..Len(posts) |->
                     PostMediaMap(done, posts[k].postId)]
           fresh == FreshRows(posts, map, f)
       IN IF KeyDerivationThrew(tasks) THEN {{}}
          ELSE SUBSET {i \in 1..Len(fresh) : fresh[i].type = "img"}

\* the page step of scrapeThreadDetailPage: scrapePagePosts, then
\* savePostsToDatabase on the new posts ("current") or on every post
SavePostsPage ==
  /\ dom # NoDom
  /\ ing.via \in SaveVariants
  /\ ing.scrapes < MaxScrapes
  /\ \E f \in Faults(dom, IngestThread) : \E purge \in BOOLEAN :
       \E scraped \in {IF f.extractOk THEN scrapePagePosts(dom) ELSE <<>>} :
       \E posts \in {IF ing.via = "current"
                     THEN SelectSeq(scraped, LAMBDA post :
                            \A i \in 1..Len(forum_posts) :
                              forum_posts[i].postId # post.postId)
                     ELSE scraped} :
       \E lost \in LostChoices(ing.via, posts, f) :
       \E out \in {IF ing.via = "separate"
                   THEN savePostsSeparately(posts, forum_posts, forum_medias,
                                            ing.bucket, f, purge, lost)
                   ELSE savePostsToDatabase(posts, forum_posts,
                                            forum_medias, f)} :
       LET tried == \E i \in 1..Len(out.uploads) : isNotRawImg(out.uploads[i].url)
           download == downloadFromAttachmentPage(f.glitches)
           stop == ing.via = "current" /\ posts = <<>> /\ scraped # <<>>
       IN /\ ~purge => ing.via = "separate" /\ FaultCount(f) = 0
          /\ f.glitches > 0 => tried
          /\ forum_posts' = IF stop THEN forum_posts ELSE out.posts
          /\ forum_medias' = IF stop THEN forum_medias ELSE out.medias
          /\ ing' = [scrapes |-> ing.scrapes + 1, kind |-> "save",
                     fault |-> f, dom |-> dom, had |-> forum_posts,
                     before |-> forum_medias, posts |-> posts,
                     uploads |-> out.uploads, stored |-> out.stored,
                     map |-> out.map, threw |-> out.threw,
                     saved |-> out.saved,
                     attempts |-> IF tried THEN download.attempts ELSE 0,
                     result |-> IF tried THEN download.result ELSE "none",
                     waits |-> IF tried THEN download.waits ELSE <<>>,
                     via |-> ing.via,
                     bucket |-> IF ing.via = "separate" THEN out.bucket
                                ELSE ing.bucket \cup out.stored]
  /\ UNCHANGED <<dom, activeUploads, detail, pipe, mon, s3tasks>>
  /\ UNCHANGED crawlVars

\* the forum: the first post is edited, or one of its media is removed
EditPage ==
  /\ dom # NoDom
  /\ \/ /\ dom[1].content = "v1"
        /\ dom' = [dom EXCEPT ![1].content = "v2"]
     \/ \E k \in 1..Len(dom[1].medias) :
          dom' = [dom EXCEPT ![1].medias =
                    SubSeq(@, 1, k - 1) \o SubSeq(@, k + 1, Len(@))]
  /\ UNCHANGED <<forum_posts, forum_medias, ing, activeUploads, detail, pipe, mon, s3tasks>>
  /\ UNCHANGED crawlVars

RECURSIVE UploadAttempt(_, _, _, _, _)
\* S3Service.processUploadTask for a task whose first fails transfers fail:
\* active tells whether activeUploads holds the task id on entry, calls counts
\* the transfers started so far, waits lists the delays slept so far
\* (delay(RETRY_DELAY * retryCount) after retryCount++); the finally clause
\* empties activeUploads
UploadAttempt(retryCount, active, fails, calls, waits) ==
  IF active THEN [result |-> "null", calls |-> calls, waits |-> waits]
  ELSE IF calls + 1 > fails
       THEN [result |-> "s3Url", calls |-> calls + 1, waits |-> waits]
  ELSE IF retryCount < UPLOAD_MAX_RETRIES
       THEN UploadAttempt(retryCount + 1, TRUE, fails, calls + 1,
                          Append(waits, RETRY_DELAY * (retryCount + 1)))
       ELSE [result |-> "null", calls |-> calls + 1, waits |-> waits]

\* S3Service.uploadMediaUrls with one URL, on a service no crawler uses
UploadMediaUrls ==
  /\ dom = NoDom
  /\ mon.pc = "off" /\ s3tasks.pc = "off"
  /\ \A w \in Procs : pc[w] = "absent"
  /\ activeUploads = {}
  /\ ing.scrapes < MaxScrapes
  /\ \E fails \in 0..MaxGlitches :
       LET out == UploadAttempt(0, FALSE, fails, 0, <<>>)
       IN ing' = [NoIngest EXCEPT !.scrapes = ing.scrapes + 1,
                              !.kind = "upload",
                              !.fault = [NoFault EXCEPT !.glitches = fails],
                              !.attempts = out.calls, !.result = out.result,
                              !.waits = out.waits]
  /\ activeUploads' = {}
  /\ UNCHANGED <<dom, forum_posts, forum_medias, detail, pipe, mon, s3tasks>>
  /\ UNCHANGED crawlVars

\* ================================================== scrapeThreadDetailPage
\* One thread crawled by scrapeThreadDetailPage. detail.posts[p] is the
\* number of posts the forum shows on page p, a post is the pair <<p, k>>,
\* detail.table the posts of the thread in forum_posts, detail.row the
\* thread's row of forum_threads and detail.thread the instance the run
\* holds. detail.faults counts the calls that have failed so far, up to
\* MaxDetailFaults.
DetailVariants == {"current", "earlier"}

NoDetail ==
  [variant |-> "none", pc |-> "off", posts |-> <<>>, table |-> {},
   row |-> [lastReplyDate |-> 0, lastUpdatedPage |-> NullPage,
            detailPageUpdateDate |-> NullDate],
   thread |-> NoThread, totalPages |-> 0, startPage |-> 0, pageNum |-> 0,
   attempt |-> 0, runs |-> 0, result |-> "none", faults |-> 0]

\* const MAX_RETRIES = 3 (forumDetailPageScraping.ts) / 5 (part_001)
DetailMaxRetries(variant) ==
  IF variant = "current" THEN DETAIL_MAX_RETRIES ELSE MAX_RETRIES

\* the posts the forum shows on page p
PostsOn(posts, p) == {<<p, k>> : k \in 1..posts[p]}

\* posts.filter(post => !existingPostIds.has(post.postId)); the variant of
\* part_001 hands every post of the page to savePostsToDatabase
NewPosts(variant, posts, table) ==
  IF variant = "current" THEN posts \ table ELSE posts

\* if (newPosts.length === 0 && postIds.length !== 0): stop scraping
ReachedOldContent(variant, posts, table) ==
  variant = "current" /\ NewPosts(variant, posts, table) = {} /\ posts # {}

\* run(): the thread is among the rows of getThreadsNeedingUpdate; the head
\* of scrapeThreadDetailPage: getTotalPages, startPage
DetailStart ==
  /\ detail.pc = "idle"
  /\ detail.runs < MaxDetailRuns
  /\ NeedsUpdate(detail.row)
  /\ \E ok \in BOOLEAN :
       LET total == IF ok THEN Len(detail.posts) ELSE 1
           start == StartPage(detail.row)
       IN /\ ~ok => detail.faults < MaxDetailFaults
          /\ detail' = [detail EXCEPT
            !.pc = IF start <= total THEN "page" ELSE "finish",
            !.thread = [threadId |-> IngestThread,
                        lastReplyDate |-> detail.row.lastReplyDate,
                        lastUpdatedPage |-> detail.row.lastUpdatedPage,
                        detailPageUpdateDate |->
                          detail.row.detailPageUpdateDate],
            !.totalPages = total, !.startPage = start, !.pageNum = start,
            !.attempt = 1, !.runs = @ + 1, !.result = "running",
            !.faults = IF ok THEN @ ELSE @ + 1]
  /\ UNCHANGED <<pageVars, pipe, mon, s3tasks>>
  /\ UNCHANGED crawlVars

\* One attempt on the current page. thrown: "none", or where the try block
\* threw: "goto" (page.goto, scrapePagePosts' caller side, findAll),
\* "update" (the lastUpdatedPage update), "recycle" (restartBrowser at
\* PAGES_BEFORE_RESTART); extractOk / saveOk: scrapePagePosts /
\* savePostsToDatabase did not catch an error of their own; r: the
\* restartBrowser of the catch block returned.
DetailPage ==
  /\ detail.pc = "page"
  /\ \E thrown \in {"none", "goto", "update", "recycle"} :
     \E extractOk \in BOOLEAN : \E saveOk \in BOOLEAN : \E r \in BOOLEAN :
       LET d == detail
           posts == IF extractOk THEN PostsOn(d.posts, d.pageNum) ELSE {}
           stop == ReachedOldContent(d.variant, posts, d.table)
           saved == IF saveOk
                    THEN d.table \cup NewPosts(d.variant, posts, d.table)
                    ELSE d.table
           last == ~(d.attempt < DetailMaxRetries(d.variant))
           failed == d.faults + (IF thrown = "none" THEN 0 ELSE 1)
                     + (IF extractOk THEN 0 ELSE 1)
                     + (IF saveOk THEN 0 ELSE 1) + (IF r THEN 0 ELSE 1)
       IN /\ thrown = "goto" => extractOk /\ saveOk
          /\ thrown = "none" => r
          /\ failed <= MaxDetailFaults
          /\ detail' =
               IF thrown = "goto"
               THEN [d EXCEPT
                       !.attempt = IF r /\ ~last THEN @ + 1 ELSE @,
                       !.pc = IF r /\ ~last THEN "page" ELSE "done",
                       !.result = IF r /\ ~last THEN @
                                  ELSE IF r THEN "abandoned" ELSE "aborted",
                       !.faults = failed]
               ELSE IF stop
               THEN [d EXCEPT !.pc = "finish", !.faults = failed]
               ELSE IF thrown = "update"
               THEN [d EXCEPT
                       !.table = saved,
                       !.attempt = IF r /\ ~last THEN @ + 1 ELSE @,
                       !.pc = IF r /\ ~last THEN "page" ELSE "done",
                       !.result = IF r /\ ~last THEN @
                                  ELSE IF r THEN "abandoned" ELSE "aborted",
                       !.faults = failed]
               ELSE IF thrown = "recycle"
               THEN [d EXCEPT
                       !.table = saved,
                       !.row.lastUpdatedPage = d.pageNum,
                       !.attempt = IF r /\ ~last THEN @ + 1 ELSE @,
                       !.pc = IF r /\ ~last THEN "page" ELSE "done",
                       !.result = IF r /\ ~last THEN @
                                  ELSE IF r THEN "abandoned" ELSE "aborted",
                       !.faults = failed]
               ELSE [d EXCEPT
                       !.table = saved,
                       !.row.lastUpdatedPage = d.pageNum,
                       !.pageNum = @ + 1, !.attempt = 1,
                       !.pc = IF d.pageNum + 1 <= d.totalPages
                              THEN "page" ELSE "finish",
                       !.faults = failed]
  /\ UNCHANGED <<pageVars, pipe, mon, s3tasks>>
  /\ UNCHANGED crawlVars

\* after the page loop: detailPageUpdateDate := thread.lastReplyDate; an
\* update that throws is caught by the outer catch
DetailFinish ==
  /\ detail.pc = "finish"
  /\ \E ok \in BOOLEAN :
       /\ ~ok => detail.faults < MaxDetailFaults
       /\ detail' = [detail EXCEPT
         !.row.detailPageUpdateDate =
            IF ok THEN detail.thread.lastReplyDate ELSE @,
         !.result = IF ok THEN "completed" ELSE "unsaved",
         !.pc = "done",
         !.faults = IF ok THEN @ ELSE @ + 1]
  /\ UNCHANGED <<pageVars, pipe, mon, s3tasks>>
  /\ UNCHANGED crawlVars

\* between two runs a reply is posted: it lands on the last page, or opens a
\* new page when the last one is full, and the listing checker stores the
\* newer lastReplyDate
DetailReply ==
  /\ detail.pc \in {"idle", "done"}
  /\ LET n == Len(detail.posts)
     IN /\ detail.posts[n] < PostsPerPage \/ n < MaxDetailPages
        /\ detail' = [detail EXCEPT
             !.posts = IF @[n] < PostsPerPage THEN [@ EXCEPT ![n] = @ + 1]
                       ELSE Append(@, 1),
             !.row.lastReplyDate = @ + 1,
             !.pc = "idle", !.result = "none"]
  /\ UNCHANGED <<pageVars, pipe, mon, s3tasks>>
  /\ UNCHANGED crawlVars

\* the next run of the process
DetailRerun ==
  /\ detail.pc = "done"
  /\ detail' = [detail EXCEPT !.pc = "idle", !.result = "none"]
  /\ UNCHANGED <<pageVars, pipe, mon, s3tasks>>
  /\ UNCHANGED crawlVars

\* ===================================================== the tasks of a batch
\* pipe.variant: whose loop runs the tasks
\*   "current"   processBatchMedia of forumDetailPageScraping.ts
\*   "earlier"   processBatchMedia of part_001 (MEDIA_BATCH_SIZE, timeouts)
\*   "streaming" processStreamingBatches of part_001
\*   "s3"        S3Service.processConcurrentUploads
\* pipe.size: the configured batch size; pipe.n: the number of tasks;
\* pipe.st[i]: "waiting", "fetching" (download under way), "fetched" (buffer
\* kept for the upload step), "storing" (PutObject under way), "done",
\* "failed"; pipe.rep: the tasks whose promise has settled for the loop;
\* pipe.pages: the tasks whose attachment page is open; pipe.buf: the tasks
\* whose buffer is held; pipe.next: the first task not started yet;
\* pipe.phase: "tasks", "returned" (the loop has returned), "recycled"
\* (restartBrowser has begun).
PipeVariants == {"current", "earlier", "streaming", "s3"}

NoPipe ==
  [variant |-> "none", size |-> 0, n |-> 0, st |-> <<>>, rep |-> {},
   pages |-> {}, buf |-> {}, next |-> 0, step |-> "off", phase |-> "off"]

Running(i) == pipe.st[i] \in {"fetching", "fetched", "storing"}
Finished(i) == pipe.st[i] \in {"done", "failed"}

\* the tasks batch.map starts together: uploadTasks.slice(i, i + size); the
\* loop of forumDetailPageScraping.ts maps over all of uploadTasks
BatchOf(variant, next, size, n) ==
  IF variant = "current" THEN next..n ELSE next..Min({next + size - 1, n})

\* what the loop awaits before it starts the next batch: allSettled on the
\* promises of the batch (which a timeout settles too); delay(100) alone in
\* processConcurrentUploads
MayStartNext(variant) ==
  CASE variant = "s3" -> TRUE
    [] variant = "earlier" -> \A i \in 1..(pipe.next - 1) : i \in pipe.rep
    [] variant = "streaming" -> pipe.step = "start"
    [] OTHER -> pipe.next = 1

\* batch.map(async (task) => ...): every task of the batch is started
StartBatch ==
  /\ pipe.phase = "tasks"
  /\ pipe.next <= pipe.n
  /\ MayStartNext(pipe.variant)
  /\ LET batch == BatchOf(pipe.variant, pipe.next, pipe.size, pipe.n)
     IN \E att \in SUBSET batch :
          /\ pipe.variant \in {"streaming", "s3"} => att = {}
          /\ pipe' = [pipe EXCEPT
               !.st = [i \in 1..pipe.n |->
                         IF i \in batch THEN "fetching" ELSE @[i]],
               !.pages = @ \cup att,
               !.next = Max(batch) + 1,
               !.step = IF pipe.variant = "streaming" THEN "download" ELSE @]
  /\ UNCHANGED <<pageVars, detail, mon, s3tasks>>
  /\ UNCHANGED crawlVars

\* the download of task i ends: downloadFile, or downloadFromAttachmentPage,
\* which closes its page before it returns
TaskFetched(i) ==
  /\ i <= pipe.n
  /\ pipe.st[i] = "fetching"
  /\ \E ok \in BOOLEAN :
       pipe' = [pipe EXCEPT
         !.st[i] = IF ~ok THEN "failed"
                   ELSE IF pipe.variant = "streaming" THEN "fetched"
                   ELSE "storing",
         !.buf = IF ok THEN @ \cup {i} ELSE @,
         !.pages = @ \ {i},
         !.rep = IF ok THEN @ ELSE @ \cup {i}]
  /\ UNCHANGED <<pageVars, detail, mon, s3tasks>>
  /\ UNCHANGED crawlVars

\* s3Client.send of task i ends; the task's buffer goes out of scope, except
\* in processStreamingBatches, where downloadResults keeps it
TaskStored(i) ==
  /\ i <= pipe.n
  /\ pipe.st[i] = "storing"
  /\ \E ok \in BOOLEAN :
       pipe' = [pipe EXCEPT
         !.st[i] = IF ok THEN "done" ELSE "failed",
         !.buf = IF pipe.variant = "streaming" THEN @ ELSE @ \ {i},
         !.rep = @ \cup {i}]
  /\ UNCHANGED <<pageVars, detail, mon, s3tasks>>
  /\ UNCHANGED crawlVars

\* part_001 processBatchMedia: Promise.race([processingPromise,
\* timeoutPromise]) settles after 60 s; processingPromise runs on
TaskTimeout(i) ==
  /\ i <= pipe.n
  /\ pipe.variant = "earlier"
  /\ Running(i)
  /\ i \notin pipe.rep
  /\ pipe' = [pipe EXCEPT !.rep = @ \cup {i}]
  /\ UNCHANGED <<pageVars, detail, mon, s3tasks>>
  /\ UNCHANGED crawlVars

\* part_001 downloadFromAttachmentPage: Promise.race([downloadPromise,
\* overallTimeout]) rejects after 120 s; the task catches the rejection and
\* fails, downloadPromise runs on with its page
DownloadTimeout(i) ==
  /\ i <= pipe.n
  /\ pipe.variant = "earlier"
  /\ pipe.st[i] = "fetching"
  /\ i \in pipe.pages
  /\ pipe' = [pipe EXCEPT !.st[i] = "failed", !.rep = @ \cup {i}]
  /\ UNCHANGED <<pageVars, detail, mon, s3tasks>>
  /\ UNCHANGED crawlVars

\* part_001 downloadFromAttachmentPage: the downloadPromise left behind by
\* DownloadTimeout reaches the end of its attempt and closes its page
LatePageClose(i) ==
  /\ i <= pipe.n
  /\ pipe.variant = "earlier"
  /\ pipe.st[i] = "failed"
  /\ i \in pipe.pages
  /\ pipe' = [pipe EXCEPT !.pages = @ \ {i}]
  /\ UNCHANGED <<pageVars, detail, mon, s3tasks>>
  /\ UNCHANGED crawlVars

\* processStreamingBatches, step 2: the downloads of the batch have settled;
\* every task with a buffer starts its PutObject, the others fail
StreamingUploads ==
  /\ pipe.variant = "streaming"
  /\ pipe.phase = "tasks"
  /\ pipe.step = "download"
  /\ \A i \in 1..(pipe.next - 1) : pipe.st[i] # "fetching"
  /\ pipe' = [pipe EXCEPT
       !.st = [i \in 1..pipe.n |-> IF @[i] = "fetched" THEN "storing" ELSE @[i]],
       !.step = "upload"]
  /\ UNCHANGED <<pageVars, detail, mon, s3tasks>>
  /\ UNCHANGED crawlVars

\* processStreamingBatches, step 3: the uploads of the batch have settled;
\* downloadResults.clear(), i += BATCH_SIZE
StreamingClear ==
  /\ pipe.variant = "streaming"
  /\ pipe.phase = "tasks"
  /\ pipe.step = "upload"
  /\ \A i \in 1..(pipe.next - 1) : Finished(i)
  /\ pipe' = [pipe EXCEPT !.buf = {}, !.step = "start"]
  /\ UNCHANGED <<pageVars, detail, mon, s3tasks>>
  /\ UNCHANGED crawlVars

\* the loop is over and its last await has resolved: allSettled on the
\* promises of the last batch (of all batches in processConcurrentUploads)
BatchReturn ==
  /\ pipe.phase = "tasks"
  /\ pipe.next > pipe.n
  /\ pipe.variant = "streaming" => pipe.step = "start"
  /\ \A i \in 1..pipe.n : i \in pipe.rep
  /\ pipe' = [pipe EXCEPT !.phase = "returned"]
  /\ UNCHANGED <<pageVars, detail, mon, s3tasks>>
  /\ UNCHANGED crawlVars

\* the page loop calls restartBrowser: after the page step (processBatchMedia
\* and saveAllPostsToDatabase have returned), or from its catch block when
\* the attempt threw before the page step
Recycle ==
  /\ pipe.variant \in {"current", "earlier"}
  /\ \/ pipe.phase = "returned"
     \/ pipe.phase = "tasks" /\ pipe.next = 1
  /\ pipe' = [pipe EXCEPT !.phase = "recycled"]
  /\ UNCHANGED <<pageVars, detail, mon, s3tasks>>
  /\ UNCHANGED crawlVars

\* ====================================================== memory monitoring
\* One ForumDetailPageScraper object through initialize(), restartBrowser()
\* and close(), and the ticks of its setInterval timers. mon.variant:
\*   "current"  forumDetailPageScraping.ts: startMemoryMonitoring stops the
\*              timer it holds before it sets a new one
\*   "earlier"  part_001:204: startMemoryMonitoring sets a new timer
\* mon.mode: NODE_ENV; mon.memoryCheckInterval: the handle held (0: null);
\* mon.timers: the handles that setInterval issued and nothing cleared;
\* mon.made: the handles issued so far; mon.call: the call that returned
\* last; mon.last: the latest tick (available memory in MB as parseInt gave
\* it, whether sudo reboot was run); mon.pc: "up", or "rebooting" once the
\* host restarts.
MonVariants == {"current", "earlier"}

NoMon ==
  [variant |-> "none", mode |-> "", pc |-> "off", memoryCheckInterval |-> 0,
   timers |-> {}, made |-> 0, call |-> "none", calls |-> 0, samples |-> 0,
   last |-> [kind |-> "none", available |-> NaN, reboot |-> FALSE]]

\* stopMemoryMonitoring
stopMemoryMonitoring(m) ==
  IF m.memoryCheckInterval # 0
  THEN [m EXCEPT !.timers = @ \ {m.memoryCheckInterval},
                 !.memoryCheckInterval = 0]
  ELSE m

\* startMemoryMonitoring
startMemoryMonitoring(m) ==
  IF m.mode # "production" THEN m
  ELSE LET held == IF m.variant = "current" THEN stopMemoryMonitoring(m)
                   ELSE m
       IN [held EXCEPT !.made = @ + 1, !.timers = @ \cup {held.made + 1},
                       !.memoryCheckInterval = held.made + 1]

\* initialize(): startMemoryMonitoring is its last statement; a launch or a
\* login that fails throws before it
initialize(m, ok) == IF ok THEN startMemoryMonitoring(m) ELSE m

\* run() / runDetailPage(): await this.initialize()
MonInitialize ==
  /\ mon.pc = "up"
  /\ mon.calls < MaxMonCalls
  /\ \E ok \in BOOLEAN :
       mon' = [initialize(mon, ok) EXCEPT !.call = "initialize",
                                          !.calls = @ + 1]
  /\ UNCHANGED <<pageVars, detail, pipe, s3tasks>>
  /\ UNCHANGED crawlVars

\* restartBrowser(): browser.close(), the temp directory, pagesScraped = 0,
\* then initialize(); an error of any of them is thrown on
MonRestartBrowser ==
  /\ mon.pc = "up"
  /\ mon.calls < MaxMonCalls
  /\ \E ok \in BOOLEAN :
       mon' = [initialize(mon, ok) EXCEPT !.call = "restartBrowser",
                                          !.calls = @ + 1]
  /\ UNCHANGED <<pageVars, detail, pipe, s3tasks>>
  /\ UNCHANGED crawlVars

\* close(): stopMemoryMonitoring(), then browser.close()
MonClose ==
  /\ mon.pc = "up"
  /\ mon.calls < MaxMonCalls
  /\ mon' = [stopMemoryMonitoring(mon) EXCEPT !.call = "close",
                                              !.calls = @ + 1]
  /\ UNCHANGED <<pageVars, detail, pipe, s3tasks>>
  /\ UNCHANGED crawlVars

\* BelowFloor with "<=" in place of "<"
BelowFloor_OrEqual(availableMemoryMB) ==
  ~availableMemoryMB.nan /\ availableMemoryMB.v <= MIN_AVAILABLE_MEMORY_MB

\* if (availableMemoryMB < this.MIN_AVAILABLE_MEMORY_MB)
BelowFloor(availableMemoryMB) ==
  JsLt(availableMemoryMB, Num(MIN_AVAILABLE_MEMORY_MB))

\* what execAsync("free -m") and the parsing of its output give: the command
\* throws, or parseInt(parts[6]) is one of the samples
FreeOutputs ==
  LET MemorySamples ==
        {NaN, Num(0), Num(MIN_AVAILABLE_MEMORY_MB - 1),
         Num(MIN_AVAILABLE_MEMORY_MB), Num(MIN_AVAILABLE_MEMORY_MB + 1)}
  IN {[threw |-> TRUE, available |-> NaN]}
       \cup {[threw |-> FALSE, available |-> a] : a \in MemorySamples}

\* checkMemoryAndRebootIfNeeded: whether it runs sudo reboot
checkMemoryAndRebootIfNeeded(mode, free) ==
  /\ mode = "production"
  /\ ~free.threw
  /\ BelowFloor(free.available)

\* a timer that was not cleared fires: checkMemoryAndRebootIfNeeded; the
\* host goes down when sudo reboot succeeds
MonTick ==
  /\ mon.pc = "up"
  /\ mon.timers # {}
  /\ mon.samples < MaxSamples
  /\ \E free \in FreeOutputs : \E rebootOk \in BOOLEAN :
       LET reboot == checkMemoryAndRebootIfNeeded(mon.mode, free)
       IN /\ ~reboot => rebootOk
          /\ mon' = [mon EXCEPT
               !.samples = @ + 1,
               !.last = IF free.threw
                        THEN [kind |-> "threw", available |-> NaN,
                              reboot |-> FALSE]
                        ELSE [kind |-> "sample", available |-> free.available,
                              reboot |-> reboot],
               !.pc = IF reboot /\ rebootOk THEN "rebooting" ELSE @,
               !.timers = IF reboot /\ rebootOk THEN {} ELSE @]
  /\ UNCHANGED <<pageVars, detail, pipe, s3tasks>>
  /\ UNCHANGED crawlVars

\* ================================================ processConcurrentUploads
\* One call of S3Service.processConcurrentUploads on the tasks s3tasks.ids
\* (the task id of each task: threadId-postId-key), in batches of
\* s3tasks.size. s3tasks.st[i]: "waiting"; "busy" (processUploadTask of task
\* i is between activeUploads.add and the end of its download and
\* PutObject); "delay" (in its catch block, before the recursive call);
\* "settled". s3tasks.next: the first task not started; s3tasks.pc: "tasks"
\* or "returned".
NoUp ==
  [pc |-> "off", size |-> 0, ids |-> <<>>, st |-> <<>>, retryCount |-> <<>>,
   next |-> 0, fails |-> 0]

RECURSIVE StartTasks(_, _, _, _)
\* batch.map(async (task) => processUploadTask(task)): each call runs up to
\* its first await before the next one starts; a call that finds its task
\* id in activeUploads returns null and its finally block deletes the id
StartTasks(ids, batch, st, active) ==
  IF batch = <<>> THEN [st |-> st, active |-> active]
  ELSE LET i == Head(batch)
       IN IF ids[i] \in active
          THEN StartTasks(ids, Tail(batch), [st EXCEPT ![i] = "settled"],
                          active \ {ids[i]})
          ELSE StartTasks(ids, Tail(batch), [st EXCEPT ![i] = "busy"],
                          active \cup {ids[i]})

\* the loop of processConcurrentUploads starts the next batch (100 ms after
\* the one before)
UpStartBatch ==
  /\ s3tasks.pc = "tasks"
  /\ s3tasks.next <= Len(s3tasks.ids)
  /\ LET last == Min({s3tasks.next + s3tasks.size - 1, Len(s3tasks.ids)})
         out == StartTasks(s3tasks.ids, [k \in 1..(last - s3tasks.next + 1) |->
                                      s3tasks.next + k - 1],
                           s3tasks.st, activeUploads)
     IN /\ s3tasks' = [s3tasks EXCEPT !.st = out.st, !.next = last + 1]
        /\ activeUploads' = out.active
  /\ UNCHANGED <<dom, forum_posts, forum_medias, ing, detail, pipe, mon>>
  /\ UNCHANGED crawlVars

\* the download and the PutObject of task i end well: the s3Url is
\* returned and the finally blocks of the calls on the task delete its id
UpTaskDone(i) ==
  /\ i <= Len(s3tasks.ids)
  /\ s3tasks.st[i] = "busy"
  /\ s3tasks' = [s3tasks EXCEPT !.st[i] = "settled"]
  /\ activeUploads' = activeUploads \ {s3tasks.ids[i]}
  /\ UNCHANGED <<dom, forum_posts, forum_medias, ing, detail, pipe, mon>>
  /\ UNCHANGED crawlVars

\* the download or the PutObject of task i throws: with retries left the
\* catch block counts one and sleeps, else null is returned and the finally
\* blocks delete the id
UpTaskFail(i) ==
  /\ i <= Len(s3tasks.ids)
  /\ s3tasks.st[i] = "busy"
  /\ s3tasks.fails < MaxFaults
  /\ IF s3tasks.retryCount[i] < UPLOAD_MAX_RETRIES
     THEN /\ s3tasks' = [s3tasks EXCEPT !.st[i] = "delay", !.retryCount[i] = @ + 1,
                              !.fails = @ + 1]
          /\ activeUploads' = activeUploads
     ELSE /\ s3tasks' = [s3tasks EXCEPT !.st[i] = "settled", !.fails = @ + 1]
          /\ activeUploads' = activeUploads \ {s3tasks.ids[i]}
  /\ UNCHANGED <<dom, forum_posts, forum_medias, ing, detail, pipe, mon>>
  /\ UNCHANGED crawlVars

\* the sleep of the catch block is over: return this.processUploadTask(task);
\* the call finds the id in activeUploads (the outer finally has not run) and
\* returns null, or finds it deleted and starts the transfer again
UpRetry(i) ==
  /\ i <= Len(s3tasks.ids)
  /\ s3tasks.st[i] = "delay"
  /\ IF s3tasks.ids[i] \in activeUploads
     THEN /\ s3tasks' = [s3tasks EXCEPT !.st[i] = "settled"]
          /\ activeUploads' = activeUploads \ {s3tasks.ids[i]}
     ELSE /\ s3tasks' = [s3tasks EXCEPT !.st[i] = "busy"]
          /\ activeUploads' = activeUploads \cup {s3tasks.ids[i]}
  /\ UNCHANGED <<dom, forum_posts, forum_medias, ing, detail, pipe, mon>>
  /\ UNCHANGED crawlVars

\* await Promise.allSettled(promises); return results
UpReturn ==
  /\ s3tasks.pc = "tasks"
  /\ s3tasks.next > Len(s3tasks.ids)
  /\ \A i \in 1..Len(s3tasks.ids) : s3tasks.st[i] = "settled"
  /\ s3tasks' = [s3tasks EXCEPT !.pc = "returned"]
  /\ UNCHANGED <<pageVars, detail, pipe, mon>>
  /\ UNCHANGED crawlVars

Next ==
  \/ \E w \in Procs :
       \/ Construct(w)
       \/ RunStart(w)
       \/ StartThread(w)
       \/ PageOk(w)
       \/ PageFail(w)
       \/ FinishThread(w)
       \/ Pace(w)
       \/ Close(w)
       \/ Relaunch(w)
  \/ IngestPage
  \/ SavePostsPage
  \/ EditPage
  \/ UploadMediaUrls
  \/ MonInitialize
  \/ MonRestartBrowser
  \/ MonClose
  \/ MonTick
  \/ UpStartBatch
  \/ UpReturn
  \/ DetailStart
  \/ DetailPage
  \/ DetailFinish
  \/ DetailReply
  \/ DetailRerun
  \/ StartBatch
  \/ \E i \in 1..MaxTasks :
       \/ TaskFetched(i)
       \/ TaskStored(i)
       \/ TaskTimeout(i)
       \/ DownloadTimeout(i)
       \/ LatePageClose(i)
       \/ UpTaskDone(i)
       \/ UpTaskFail(i)
       \/ UpRetry(i)
  \/ StreamingUploads
  \/ StreamingClear
  \/ BatchReturn
  \/ Recycle

\* ------------------------------------------------------------------- Init
\* process.env of a process that is not started
NoEnv == [NODE_INDEX |-> <<>>, NODE_COUNT |-> <<>>]

\* the listing scraper has stored every thread; none was crawled yet
FreshThreads(dates) ==
  [t \in ThreadIds |->
     [lastReplyDate |-> dates[t], lastUpdatedPage |-> NullPage,
      detailPageUpdateDate |-> NullDate]]

InitCrawl(e, sites, dates, started) ==
  /\ env = e
  /\ pc = [w \in Procs |-> IF e[w] = NoEnv THEN "absent" ELSE "new"]
  /\ node = [w \in Procs |-> NoNode]
  /\ threadsToUpdate = [w \in Procs |-> <<>>]
  /\ cur = [w \in Procs |-> NoCur]
  /\ pagesScraped = [w \in Procs |-> 0]
  /\ forum_threads = FreshThreads(dates)
  /\ site = sites
  /\ launches = [w \in Procs |-> started]
  /\ obs = [w \in Procs |-> NoObs]
  /\ touched = [t \in ThreadIds |-> {}]
  /\ lastAbandon = [t \in ThreadIds |-> NoAbandon]

\* no page step is followed
InitWith(e, sites, dates, started) ==
  /\ InitCrawl(e, sites, dates, started)
  /\ dom = NoDom
  /\ forum_posts = <<>>
  /\ forum_medias = <<>>
  /\ activeUploads = {}
  /\ ing = NoIngest
  /\ detail = NoDetail
  /\ pipe = NoPipe
  /\ mon = NoMon
  /\ s3tasks = NoUp

\* the page as the forum first shows it: the first post carries any list of
\* up to MaxMedias media pairs, the others one raw image
DomShapes ==
  {[i \in 1..MaxPosts |->
      [postId |-> i, content |-> "v1",
       medias |-> IF i = 1 THEN m ELSE <<<<RawImage, NoUrl>>>>]] :
   m \in MediaLists}

\* no crawler process runs; one page is scraped up to MaxScrapes times while
\* the forum edits it
InitIngest ==
  /\ InitCrawl([w \in Procs |-> NoEnv], [t \in ThreadIds |-> 1],
               [t \in ThreadIds |-> 0], MaxRuns)
  /\ dom \in DomShapes
  /\ forum_posts = <<>>
  /\ forum_medias = <<>>
  /\ activeUploads = {}
  /\ ing = NoIngest
  /\ detail = NoDetail
  /\ pipe = NoPipe
  /\ mon = NoMon
  /\ s3tasks = NoUp

\* the page as InitIngest shows it, the first post with images and videos
SaveShapes ==
  {d \in DomShapes :
     \A k \in 1..Len(d[1].medias) :
       d[1].medias[k] \in {<<RawImage, NoUrl>>, <<RawVideo, NoUrl>>}}

\* no crawler process runs; one page is saved through savePostsToDatabase,
\* in one of its variants, up to MaxScrapes times while the forum edits it
InitSavePosts ==
  /\ InitCrawl([w \in Procs |-> NoEnv], [t \in ThreadIds |-> 1],
               [t \in ThreadIds |-> 0], MaxRuns)
  /\ dom \in SaveShapes
  /\ forum_posts = <<>>
  /\ forum_medias = <<>>
  /\ activeUploads = {}
  /\ \E v \in SaveVariants : ing = [NoIngest EXCEPT !.via = v]
  /\ detail = NoDetail
  /\ pipe = NoPipe
  /\ mon = NoMon
  /\ s3tasks = NoUp

\* one process, any NODE_INDEX, crawling threads of up to MaxPages pages,
\* started up to MaxRuns times
\* (thread 1 has one page and its own last reply date, the others share
\* theirs)
InitOne ==
  \E i \in {<<>>, <<"0">>, <<"1">>, <<"2">>, <<"-", "1">>, <<"x">>} :
  \E c \in {<<"2">>} :
  \E sites \in {[t \in ThreadIds |-> IF t \in {2, 3} THEN p ELSE 1] :
                  p \in 1..MaxPages} :
  \E dates \in {[t \in ThreadIds |-> IF t = 1 THEN d1 ELSE d] :
                  d1 \in Dates, d \in Dates} :
    InitWith([w \in Procs |-> IF w = 0 THEN [NODE_INDEX |-> i, NODE_COUNT |-> c]
                              ELSE NoEnv],
             sites, dates, 0)

\* one process in its last start, with threads long enough for pagesScraped
\* to reach PAGES_BEFORE_RESTART
InitLong ==
  \E dates \in {[t \in ThreadIds |-> 0]} :
    InitWith([w \in Procs |-> IF w = 0 THEN [NODE_INDEX |-> <<"1">>,
                                             NODE_COUNT |-> <<"2">>]
                              ELSE NoEnv],
             [t \in ThreadIds |-> IF t = 1 THEN 1 ELSE LongPages],
             dates, MaxRuns - 1)

\* NumProcs processes with NODE_COUNT = NumProcs and NODE_INDEX 0..NumProcs-1,
\* each in its last start, crawling one-page threads at the same time
InitFleet ==
  \E dates \in {[t \in ThreadIds |-> 0]} :
    InitWith([w \in Procs |-> [NODE_INDEX |-> <<DigitChar[w + 1]>>,
                               NODE_COUNT |-> <<DigitChar[NumProcs + 1]>>]],
             [t \in ThreadIds |-> 1], dates, MaxRuns - 1)

\* no crawler process runs; S3Service uploads a URL on its own
InitUpload ==
  InitWith([w \in Procs |-> NoEnv], [t \in ThreadIds |-> 1],
           [t \in ThreadIds |-> 0], MaxRuns)

\* the pages a thread shows when the listing scraper has stored it
DetailShapes ==
  {q \in UNION {[1..n -> 1..PostsPerPage] : n \in 1..MaxDetailPages} :
     \A p \in 1..(Len(q) - 1) : q[p] = PostsPerPage}

\* no page step is followed; one fresh thread is crawled by
\* scrapeThreadDetailPage, in either variant, up to MaxDetailRuns times
InitDetail ==
  /\ InitCrawl([w \in Procs |-> NoEnv], [t \in ThreadIds |-> 1],
               [t \in ThreadIds |-> 0], MaxRuns)
  /\ dom = NoDom
  /\ forum_posts = <<>>
  /\ forum_medias = <<>>
  /\ activeUploads = {}
  /\ ing = NoIngest
  /\ pipe = NoPipe
  /\ mon = NoMon
  /\ s3tasks = NoUp
  /\ \E v \in DetailVariants : \E q \in DetailShapes :
       detail = [NoDetail EXCEPT !.variant = v, !.pc = "idle", !.posts = q]

\* no crawler process is followed; one call of a task loop with up to
\* MaxTasks upload tasks and a batch size of up to MaxBatch
InitPipe ==
  /\ InitCrawl([w \in Procs |-> NoEnv], [t \in ThreadIds |-> 1],
               [t \in ThreadIds |-> 0], MaxRuns)
  /\ dom = NoDom
  /\ forum_posts = <<>>
  /\ forum_medias = <<>>
  /\ activeUploads = {}
  /\ ing = NoIngest
  /\ detail = NoDetail
  /\ mon = NoMon
  /\ s3tasks = NoUp
  /\ \E v \in PipeVariants : \E size \in 1..MaxBatch : \E n \in 1..MaxTasks :
       pipe = [NoPipe EXCEPT !.variant = v, !.size = size, !.n = n,
                             !.st = [i \in 1..n |-> "waiting"],
                             !.next = 1, !.step = "start", !.phase = "tasks"]

\* no crawler process is followed; one scraper object, in production mode
\* or not, gets up to MaxMonCalls calls while its timers tick
InitMonitor ==
  /\ InitCrawl([w \in Procs |-> NoEnv], [t \in ThreadIds |-> 1],
               [t \in ThreadIds |-> 0], MaxRuns)
  /\ dom = NoDom
  /\ forum_posts = <<>>
  /\ forum_medias = <<>>
  /\ activeUploads = {}
  /\ ing = NoIngest
  /\ detail = NoDetail
  /\ pipe = NoPipe
  /\ \E v \in MonVariants : \E mode \in {"production", ""} :
       mon = [NoMon EXCEPT !.variant = v, !.mode = mode, !.pc = "up"]
  /\ s3tasks = NoUp

\* no crawler process is followed; processConcurrentUploads is called with
\* up to MaxTasks tasks whose task ids are among MaxTaskIds
InitUploads ==
  /\ InitCrawl([w \in Procs |-> NoEnv], [t \in ThreadIds |-> 1],
               [t \in ThreadIds |-> 0], MaxRuns)
  /\ dom = NoDom
  /\ forum_posts = <<>>
  /\ forum_medias = <<>>
  /\ activeUploads = {}
  /\ ing = NoIngest
  /\ detail = NoDetail
  /\ pipe = NoPipe
  /\ mon = NoMon
  /\ \E n \in 1..MaxTasks : \E ids \in [1..n -> 1..MaxTaskIds] :
     \E size \in 1..MaxTasks :
       s3tasks = [NoUp EXCEPT !.pc = "tasks", !.size = size, !.ids = ids,
                         !.st = [i \in 1..n |-> "waiting"],
                         !.retryCount = [i \in 1..n |-> 0], !.next = 1]

Init ==
  \/ InitMonitor \/ InitUploads
  \/ InitOne \/ InitLong \/ InitFleet \/ InitIngest \/ InitSavePosts
  \/ InitUpload
  \/ InitDetail \/ InitPipe

Spec == Init /\ [][Next]_vars

\* one process that owns the threads with an even id, started up to MaxRuns
\* times on one-page threads, and the listing checker at work beside it
InitChecker ==
  InitWith([w \in Procs |-> IF w = 0 THEN [NODE_INDEX |-> <<"0">>,
                                           NODE_COUNT |-> <<"2">>]
                            ELSE NoEnv],
           [t \in ThreadIds |-> 1], [t \in ThreadIds |-> 0], 0)

NextChecker ==
  \/ \E w \in Procs :
       \/ Construct(w)
       \/ RunStart(w)
       \/ StartThread(w)
       \/ PageOk(w)
       \/ PageFail(w)
       \/ FinishThread(w)
       \/ Pace(w)
       \/ Close(w)
       \/ Relaunch(w)
  \/ \E t \in ThreadIds : UpdateLastReplyDate(t)

SpecChecker == InitChecker /\ [][NextChecker]_vars

\* ================================================================== claims
\* process w is inside scrapeAllThreadPages (or has just left it)
Active(w) == pc[w] \in {"page", "finish", "pace"}
\* the forum_threads row of the thread process w is crawling
DbRow(w) == forum_threads[cur[w].thread.threadId]
\* bounds of the ownership table checked for C8
MaxWorkers == 4
MaxSample == 8
\* Owners[N][t]: the indexes in 0..N-1 whose filter keeps thread t
Owners ==
  [N \in 1..MaxWorkers |->
     [t \in 1..MaxSample |-> {i \in 0..(N - 1) : Owns(t, Num(i), Num(N))}]]
\* OwnedOfFour[i]: the threads of {1,2,3,4} worker i of two keeps
OwnedOfFour == [i \in 0..1 |-> {t \in 1..4 : Owns(t, Num(i), Num(2))}]

\* C1: a page whose processing failed (navigation, extraction or persistence)
\* is tried again, the same page, at most MAX_RETRIES attempts in all; once all
\* attempts failed the thread is given up with lastUpdatedPage not beyond the
\* failing page, detailPageUpdateDate untouched, and the thread still due.
C1_FailedPageRetriedOrAbandoned ==
  \A w \in Procs : Active(w) =>
    LET c == cur[w]
        o == obs[w]
        row == DbRow(w)
    IN /\ (o.last \in {"failed", "swallowed"} /\ o.result = "running") =>
            /\ pc[w] = "page"
            /\ c.pageNum = o.page
            /\ c.attempt \in 2..MAX_RETRIES
       /\ o.result = "abandoned" =>
            /\ row.lastUpdatedPage <= o.page
            /\ row.detailPageUpdateDate = c.thread.detailPageUpdateDate
            /\ NeedsUpdate(row)

\* C2: a fresh 3-page thread given up at page 2 is left with lastUpdatedPage = 1,
\* and the next run of that thread begins at page 2.
C2_NextRunResumesAtFailedPage ==
  LET gaveUpAt2 == [page |-> 2, total |-> 3, fresh |-> TRUE]
  IN /\ \A t \in ThreadIds :
          lastAbandon[t] = gaveUpAt2 => forum_threads[t].lastUpdatedPage = 1
     /\ \A w \in Procs :
          (pc[w] = "page" /\ obs[w].last = "none" /\ cur[w].after = gaveUpAt2
             /\ cur[w].totalPages = 3)
            => cur[w].pageNum = 2

\* C3: in a run of a fresh 3-page thread where nothing fails except page 2, and
\* page 2 fails twice and then succeeds, the thread is not given up, the run
\* goes on to page 3, and it ends with lastUpdatedPage = 3.
C3_RetryThenContinue ==
  \A w \in Procs : Active(w) =>
    LET c == cur[w]
        o == obs[w]
        row == DbRow(w)
    IN (c.thread.lastUpdatedPage = NullPage /\ c.totalPages = 3
          /\ ~o.other /\ o.f2 <= 2) =>
         /\ o.result \notin {"abandoned", "aborted"}
         /\ (o.f2 = 2 /\ c.pageNum > 2) =>
              /\ pc[w] = "page" =>
                   c.pageNum = 3 /\ c.attempt = 1 /\ row.lastUpdatedPage = 2
              /\ pc[w] \in {"finish", "pace"} => row.lastUpdatedPage = 3

C3_Witness ==
  \E w \in Procs :
    /\ pc[w] = "pace"
    /\ cur[w].thread.lastUpdatedPage = NullPage
    /\ cur[w].totalPages = 3
    /\ ~obs[w].other
    /\ obs[w].f2 = 2
    /\ obs[w].result = "completed"
    /\ DbRow(w).lastUpdatedPage = 3

\* C4: a run writes detailPageUpdateDate, and writes the thread's lastReplyDate,
\* only when the last page of the thread succeeded in that same run; a run that
\* ends any other way leaves detailPageUpdateDate as it was.
C4_SyncedOnlyAfterLastPage ==
  \A w \in Procs : Active(w) =>
    LET c == cur[w]
        o == obs[w]
        row == DbRow(w)
    IN /\ o.result = "completed" =>
            /\ row.detailPageUpdateDate = c.thread.lastReplyDate
            /\ o.last \in {"ok", "swallowed"}
            /\ o.page = c.totalPages
       /\ o.result # "completed" =>
            row.detailPageUpdateDate = c.thread.detailPageUpdateDate

\* C5: no step of any run lowers a thread's lastUpdatedPage (NULL counts as
\* below every page).
C5_LastUpdatedPageNeverDecreases ==
  [][\A t \in ThreadIds :
       forum_threads'[t].lastUpdatedPage >= forum_threads[t].lastUpdatedPage]_vars

C5_Witness ==
  \E w \in Procs :
    /\ Active(w)
    /\ cur[w].thread.lastUpdatedPage # NullPage
    /\ obs[w].last = "ok"
    /\ DbRow(w).lastUpdatedPage > cur[w].thread.lastUpdatedPage

C7_SelectionIsOwnedDueThreads ==
  [][\A w \in Procs :
       (pc[w] = "constructed" /\ obs'[w].result = "selected") =>
         LET q == threadsToUpdate'[w]
             idx == node[w].NODE_INDEX
             cnt == node[w].NODE_COUNT
             due == {t \in ThreadIds :
                       /\ ~idx.nan /\ ~cnt.nan /\ cnt.v > 0
                       /\ t % cnt.v = idx.v
                       /\ \/ forum_threads[t].detailPageUpdateDate = NullDate
                          \/ forum_threads[t].detailPageUpdateDate
                               < forum_threads[t].lastReplyDate}
         IN /\ {q[i].threadId : i \in 1..Len(q)} = due
            /\ Len(q) = Cardinality(due)
            /\ \A i \in 1..Len(q) : \A j \in 1..Len(q) :
                 i < j => forum_threads[q[i].threadId].lastReplyDate
                            >= forum_threads[q[j].threadId].lastReplyDate
            /\ \A i \in 1..Len(q) :
                 q[i].lastUpdatedPage
                   = forum_threads[q[i].threadId].lastUpdatedPage]_vars

C7_Witness ==
  \E w \in Procs :
    /\ pc[w] = "next"
    /\ obs[w].result = "selected"
    /\ Len(threadsToUpdate[w]) = 2
    /\ threadsToUpdate[w][1].lastReplyDate > threadsToUpdate[w][2].lastReplyDate
    /\ threadsToUpdate[w][1].threadId > threadsToUpdate[w][2].threadId

\* C8: for N workers, index i owns thread t exactly when t mod N = i, so each
\* thread has exactly one owner among 0..N-1; with N = 2, worker 0 owns 2 and 4
\* of {1,2,3,4} and worker 1 owns 1 and 3; a worker's list holds only threads
\* it owns.
C8_PartitionByRemainder ==
  /\ \A N \in 1..MaxWorkers : \A t \in 1..MaxSample : Owners[N][t] = {t % N}
  /\ OwnedOfFour[0] = {2, 4}
  /\ OwnedOfFour[1] = {1, 3}
  /\ \A w \in Procs : \A i \in 1..Len(threadsToUpdate[w]) :
       threadsToUpdate[w][i].threadId % node[w].NODE_COUNT.v
         = node[w].NODE_INDEX.v

C8_Witness ==
  \E v \in Procs : \E w \in Procs \ {v} :
    /\ pc[v] = "next" /\ obs[v].result = "selected"
    /\ pc[w] = "next" /\ obs[w].result = "selected"
    /\ threadsToUpdate[v] # <<>>
    /\ threadsToUpdate[w] # <<>>
    /\ \A t \in ThreadIds :
         \E x \in Procs : \E i \in 1..Len(threadsToUpdate[x]) :
           threadsToUpdate[x][i].threadId = t

\* C9: workers started with the same NODE_COUNT and pairwise different
\* NODE_INDEX values never fetch, write or hold the same thread.
C9_WorkersShareNoThread ==
  LET present == {w \in Procs : pc[w] # "absent"}
      held(w) == {threadsToUpdate[w][i].threadId :
                    i \in 1..Len(threadsToUpdate[w])}
                 \cup (IF Active(w) THEN {cur[w].thread.threadId} ELSE {})
  IN (\A v \in present : \A w \in present \ {v} :
        /\ env[v].NODE_COUNT = env[w].NODE_COUNT
        /\ env[v].NODE_INDEX # env[w].NODE_INDEX) =>
       /\ \A t \in ThreadIds : Cardinality(touched[t]) <= 1
       /\ \A v \in present : \A w \in present \ {v} : held(v) \cap held(w) = {}

C9_Witness ==
  \E v \in Procs : \E w \in Procs \ {v} :
    /\ pc[v] = "page"
    /\ pc[w] = "page"
    /\ touched[cur[v].thread.threadId] = {v}
    /\ touched[cur[w].thread.threadId] = {w}

\* C10: a process whose NODE_INDEX is not a number in [0, NODE_COUNT) ends in
\* the constructor: it never selects a thread and never crawls one.
C10_InvalidIndexFailsFast ==
  \A w \in Procs : pc[w] \notin {"absent", "new"} =>
    LET idx == ParseInt(EnvOr(env[w].NODE_INDEX, <<"0">>))
        cnt == ParseInt(EnvOr(env[w].NODE_COUNT, <<"1">>))
        inside == /\ ~idx.nan /\ ~cnt.nan
                  /\ 0 <= idx.v /\ idx.v < cnt.v
    IN ~inside =>
         /\ pc[w] = "threw"
         /\ threadsToUpdate[w] = <<>>
         /\ \A t \in ThreadIds : w \notin touched[t]

C19_CheckpointOnlyAfterPersist ==
  \A w \in Procs :
    (Active(w) /\ obs[w].last = "swallowed"
       /\ cur[w].thread.lastUpdatedPage < obs[w].page) =>
      DbRow(w).lastUpdatedPage < obs[w].page

Ingested == ing.kind = "page" /\ ing.fault.extractOk /\ ~ing.threw

\* the rows of forum_medias of one post
MediaOf(rows, postId) == SelectSeq(rows, LAMBDA r : r.postId = postId)

\* the link of the asset stored for the k-th media pair of a scraped post
LinkOf(post, k) ==
  S3Url(PairKeys(DedupUrl(post.medias[k]), IngestThread, post.postId,
                 k - 1).fullKey)

StoredLinks(postId) ==
  {S3Url(ing.uploads[i].key) :
     i \in {j \in 1..Len(ing.uploads) :
              /\ ing.uploads[j].postId = postId
              /\ ing.uploads[j].isThumb = 0
              /\ ing.uploads[j].key \in ing.stored}}

\* C14: whatever happens to single assets of a page (key derivation,
\* download, upload), a page step whose extraction and database calls work
\* stores every post of the page, each with exactly the assets that were
\* stored for it.
C14_AssetFailureKeepsTheRest ==
  (/\ ing.kind = "page" /\ ing.fault.extractOk /\ ing.fault.destroyOk
   /\ ing.fault.dbDown = {})
  => \A k \in 1..Len(ing.posts) :
       /\ \E i \in 1..Len(forum_posts) :
            /\ forum_posts[i].postId = ing.posts[k].postId
            /\ forum_posts[i].content = ing.posts[k].content
       /\ {r.link : r \in {MediaOf(forum_medias, ing.posts[k].postId)[j] :
                             j \in 1..Len(MediaOf(forum_medias, ing.posts[k].postId))}}
          = StoredLinks(ing.posts[k].postId)

\* the upload task of the thumbnail that belongs to the i-th upload task (a
\* full-size one with a thumbnail): uploadTasks holds it right after
Companion(i) == ing.uploads[i + 1]

\* C15: every entry of the map processBatchMedia returned is the link of a
\* full-size asset that was stored, and an entry says hasThumbnail only if
\* the thumbnail of the same media pair was stored too.
C15_MapTellsWhatWasStored ==
  ing.kind = "page" =>
    \A k \in 1..Len(ing.map) : \A n \in 1..Len(ing.map[k]) :
      \E i \in 1..Len(ing.uploads) :
        /\ ing.uploads[i].postId = ing.posts[k].postId
        /\ ing.uploads[i].isThumb = 0
        /\ S3Url(ing.uploads[i].key) = ing.map[k][n].s3Url
        /\ ing.uploads[i].key \in ing.stored
        /\ ing.map[k][n].hasThumbnail =>
             /\ Companion(i).isThumb = 1
             /\ Companion(i).key \in ing.stored

C17_EqualUrlsCollapse ==
  (ing.kind = "page" /\ ing.fault.extractOk) =>
    \A k \in 1..Len(ing.posts) :
      LET raw == ing.dom[k].medias
          medias == ing.posts[k].medias
          ups == {i \in 1..Len(ing.uploads) :
                    /\ ing.uploads[i].postId = ing.posts[k].postId
                    /\ ing.uploads[i].isThumb = 0}
      IN /\ \A i \in 1..Len(medias) : \A j \in 1..Len(medias) :
              DedupUrl(medias[i]) = DedupUrl(medias[j]) => i = j
         /\ \A i \in 1..Len(raw) :
              ~shouldSkipUrl(DedupUrl(raw[i])) =>
                \E j \in 1..Len(medias) : medias[j] = raw[i]
         /\ \A i \in ups : \A j \in ups :
              ing.uploads[i].url = ing.uploads[j].url => i = j

\* the first post showed the same pair twice; one pair and one full-size
\* upload task were left
C17_Witness ==
  /\ ing.kind = "page" /\ ing.fault.extractOk /\ ~ing.threw
  /\ Len(ing.dom[1].medias) = 2
  /\ ing.dom[1].medias[1] = ing.dom[1].medias[2]
  /\ ~shouldSkipUrl(ing.dom[1].medias[1][1])
  /\ Len(ing.posts[1].medias) = 1
  /\ Cardinality({i \in 1..Len(ing.uploads) :
                    /\ ing.uploads[i].postId = 1
                    /\ ing.uploads[i].isThumb = 0}) = 1

\* ---------------------------------------------------------- key derivation
\* file names of up to MaxNameLen pieces, after no directory or after the
\* directory of an attachment page
SampleUrls ==
  {Url("http", dir, name) :
     dir \in {<<>>, Attachment.dir},
     name \in UNION {[1..n -> NameTokens] : n \in 0..MaxNameLen}}

\* both key functions as processBatchMedia calls them, as strings
KeyString(url, postId, isThumbnail, uniqueId) ==
  LET keys == PairKeys(url, IngestThread, postId, uniqueId)
  IN Flat(IF isThumbnail THEN keys.thumbKey ELSE keys.fullKey)

\* over SampleUrls and uniqueId 0..MaxUnique: another uniqueId gives another
\* key, and the thumbnail key differs from the full-size key
KeysDifferOnSamples ==
  \A url \in SampleUrls : \A u \in 0..MaxUnique :
    /\ KeyString(url, 1, FALSE, u) # KeyString(url, 1, TRUE, u)
    /\ \A v \in 0..MaxUnique : \A thumb \in BOOLEAN :
         u # v => KeyString(url, 1, thumb, u) # KeyString(url, 1, thumb, v)

\* C18: the key of an upload task depends only on the URL, the thread, the
\* post, the thumbnail flag and uniqueId (deriving it again gives the same
\* key), and keys that differ only in uniqueId or only in the thumbnail flag
\* are different strings: on the sample URLs, and among the upload tasks of
\* every page step.
C18_KeysAreDeterministic ==
  /\ KeysDifferOnSamples
  /\ ing.kind = "page" =>
       \A i \in 1..Len(ing.uploads) : \A j \in 1..Len(ing.uploads) :
         LET a == ing.uploads[i]
             b == ing.uploads[j]
         IN /\ \E k \in 1..Len(ing.posts[a.postId].medias) :
                 /\ a.url \in {ing.posts[a.postId].medias[k][1],
                               ing.posts[a.postId].medias[k][2]}
                 /\ Flat(a.key) =
                      KeyString(DedupUrl(ing.posts[a.postId].medias[k]),
                                a.postId, a.isThumb = 1, k - 1)
            /\ (i # j /\ a.postId = b.postId) => Flat(a.key) # Flat(b.key)

\* a page step derived, for one post, the keys of two media pairs and the
\* thumbnail key of one of them
C18_Witness ==
  /\ ing.kind = "page"
  /\ \E i \in 1..Len(ing.uploads) : \E j \in 1..Len(ing.uploads) :
     \E t \in 1..Len(ing.uploads) :
       /\ i # j
       /\ ing.uploads[i].postId = 1 /\ ing.uploads[i].isThumb = 0
       /\ ing.uploads[j].postId = 1 /\ ing.uploads[j].isThumb = 0
       /\ ing.uploads[t].postId = 1 /\ ing.uploads[t].isThumb = 1

\* ------------------------------------------------------------ recycling
\* C22: whenever an attempt on a page starts, pagesScraped is strictly below
\* PAGES_BEFORE_RESTART (every recycle has reset it to 0, and a recycle ran as
\* soon as it reached the threshold).
C22_CounterBelowThreshold ==
  \A w \in Procs : pc[w] = "page" => pagesScraped[w] < PAGES_BEFORE_RESTART

\* C30: a step of an attempt that writes the checkpoint of its page (the row's
\* lastUpdatedPage becomes the current page number) carries the run past that
\* page: the page is not attempted again and the thread is not given up there.
C30_CheckpointedPageIsDone ==
  [][\A w \in Procs :
       (/\ pc[w] = "page"
        /\ (cur'[w] # cur[w] \/ pc'[w] # pc[w])
        /\ DbRow(w).lastUpdatedPage # cur[w].pageNum
        /\ forum_threads'[cur[w].thread.threadId].lastUpdatedPage
             = cur[w].pageNum) =>
         /\ cur'[w].pageNum = cur[w].pageNum + 1
         /\ obs'[w].result \notin {"abandoned", "aborted"}]_vars

\* ------------------------------------------------------------ retries
\* C26: an upload task whose transfer fails while retryCount is below
\* MAX_RETRIES performs the transfer again, so a task whose first transfers
\* fail makes one transfer more than failed (up to 1 + MAX_RETRIES) and
\* returns null only when all of them failed.
C26_FailedUploadIsRetried ==
  (ing.kind = "upload" /\ ing.fault.glitches > 0) =>
    /\ ing.attempts = Min({ing.fault.glitches, UPLOAD_MAX_RETRIES}) + 1
    /\ ing.result = "null" => ing.fault.glitches > UPLOAD_MAX_RETRIES

RECURSIVE SumSeq(_)
SumSeq(q) == IF q = <<>> THEN 0 ELSE Head(q) + SumSeq(Tail(q))

\* C27: in a retry loop the k-th wait (the one after the k-th failed attempt)
\* is the base delay times k, and all waits of one operation together are at
\* most maxAttempts times the base delay times maxAttempts.
C27_LinearBackoff ==
  /\ (ing.kind = "page" /\ ing.result # "none") =>
       /\ \A k \in 1..Len(ing.waits) : ing.waits[k] = ATTACHMENT_DELAY * k
       /\ SumSeq(ing.waits)
            <= ATTACHMENT_MAX_RETRIES * ATTACHMENT_DELAY * ATTACHMENT_MAX_RETRIES
  /\ ing.kind = "upload" =>
       /\ \A k \in 1..Len(ing.waits) : ing.waits[k] = RETRY_DELAY * k
       /\ SumSeq(ing.waits)
            <= UPLOAD_MAX_RETRIES * RETRY_DELAY * UPLOAD_MAX_RETRIES

\* C25: every upload task of a page step is retried: a task that meets fewer
\* failures than its maxAttempts (one failed transfer of a direct fetch;
\* fewer than ATTACHMENT_MAX_RETRIES attachment page failures of an indirect
\* one) has its object stored at the end of the step.
C25_EveryFetchIsRetried ==
  Ingested =>
    \A i \in 1..Len(ing.uploads) :
      LET up == ing.uploads[i]
      IN (isNotRawImg(up.url) =>
            /\ ing.fault.glitches < ATTACHMENT_MAX_RETRIES
            /\ up.key \notin ing.fault.failed) =>
           up.key \in ing.stored

\* ------------------------------------------------ scrapeThreadDetailPage
\* C29: when scrapeThreadDetailPage has marked the thread synced, every post
\* of every page from the run's start page to the thread's last page is in
\* the post table.
C29_SyncedMeansEveryPostStored ==
  (detail.pc = "done" /\ detail.result = "completed") =>
    \A p \in detail.startPage..Len(detail.posts) :
      PostsOn(detail.posts, p) \subseteq detail.table

\* ------------------------------------------------------ tasks of a batch
\* C21: when a recycle has begun, no upload task started for the current
\* page is still running.
C21_NoTaskRunsAtRecycle ==
  pipe.phase = "recycled" => \A i \in 1..pipe.n : ~Running(i)

\* the batch a task belongs to
SubBatch(i) == (i - 1) \div pipe.size

\* C23: tasks run in sub-batches of the configured size: when a task has been
\* started every task of the sub-batches before its own has finished, and no
\* more tasks than the batch size are running at any time.
C23_SubBatchesInTurn ==
  pipe.variant \in {"current", "earlier", "s3"} =>
    /\ \A i \in 1..pipe.n : \A j \in 1..pipe.n :
         (SubBatch(i) < SubBatch(j) /\ pipe.st[j] # "waiting") => Finished(i)
    /\ Cardinality({i \in 1..pipe.n : Running(i)}) <= pipe.size

\* C24: at most as many buffers as the configured batch size are held at any
\* time, and none of an earlier sub-batch while a task is downloading.
C24_BuffersWithinBatchSize ==
  pipe.variant \in {"streaming", "current"} =>
    /\ Cardinality(pipe.buf) <= pipe.size
    /\ \A i \in pipe.buf : \A j \in 1..pipe.n :
         pipe.st[j] = "fetching" => SubBatch(i) >= SubBatch(j)

\* C28: an attachment page is open only while its download is under way and
\* not yet reported, and none is open once the loop has returned.
C28_PagesClosedWhenReported ==
  /\ \A i \in pipe.pages : pipe.st[i] = "fetching" /\ i \notin pipe.rep
  /\ pipe.phase \in {"returned", "recycled"} => pipe.pages = {}

\* ---------------------------------------------------------- upload tasks
\* the media references of the posts of the latest page step, in page order
Refs ==
  Concat([i \in 1..Len(ing.posts) |->
    LET post == ing.posts[i]
    IN Concat([k \in 1..Len(post.medias) |->
         IF Skipped(post.medias[k]) \/ post.medias[k] = <<NoUrl, NoUrl>>
         THEN <<>>
         ELSE <<[postId |-> post.postId, full |-> post.medias[k][1],
                 thumb |-> post.medias[k][2]]>>])])

\* the tasks the claim gives one reference
TasksOfRef(ref) ==
  LET both == ref.full # NoUrl /\ ref.thumb # NoUrl
  IN (IF ref.full # NoUrl
      THEN <<[postId |-> ref.postId, url |-> ref.full, isThumb |-> 0,
              hasThumb |-> both]>>
      ELSE <<>>)
     \o
     (IF ref.thumb # NoUrl
      THEN <<[postId |-> ref.postId, url |-> ref.thumb, isThumb |-> 1,
              hasThumb |-> both]>>
      ELSE <<>>)

\* C38: the upload tasks of a page step are, reference by reference, one task
\* per non-empty URL; the two tasks of a reference with both URLs carry
\* hasThumb = true, the one task of a reference with one URL hasThumb = false.
C38_OneTaskPerUrl ==
  Ingested =>
    [i \in 1..Len(ing.uploads) |->
       [postId |-> ing.uploads[i].postId, url |-> ing.uploads[i].url,
        isThumb |-> ing.uploads[i].isThumb,
        hasThumb |-> ing.uploads[i].hasThumb]]
    = Concat([r \in 1..Len(Refs) |-> TasksOfRef(Refs[r])])

\* a page step with a reference of two URLs and a reference of one
C38_Witness ==
  /\ Ingested
  /\ \E i \in 1..Len(ing.uploads) :
       ing.uploads[i].isThumb = 1 /\ ing.uploads[i].hasThumb
  /\ \E i \in 1..Len(ing.uploads) : ~ing.uploads[i].hasThumb
  /\ Len(ing.uploads) >= 3

\* the keys of the upload tasks of one post, as strings
TaskKeysOf(postId) ==
  {Flat(ing.uploads[i].key) :
     i \in {j \in 1..Len(ing.uploads) : ing.uploads[j].postId = postId}}

\* two references of one post (uniqueId 0 and 1) with sample file names: the
\* four keys are four strings
FourKeysOnSamples ==
  \A first \in SampleUrls : \A second \in SampleUrls :
    first.dir = second.dir =>
      Cardinality({KeyString(first, 1, FALSE, 0), KeyString(first, 1, TRUE, 0),
                   KeyString(second, 1, FALSE, 1),
                   KeyString(second, 1, TRUE, 1)}) = 4

\* C37: the upload tasks of one post have pairwise different storage keys:
\* a post with n upload tasks has n keys, so two media references never share
\* a key and the full-size key of a reference is not its thumbnail key.
C37_KeysDistinctWithinPost ==
  /\ FourKeysOnSamples
  /\ Ingested =>
       \A p \in PostIds :
         Cardinality(TaskKeysOf(p)) =
           Cardinality({j \in 1..Len(ing.uploads) : ing.uploads[j].postId = p})

\* a post whose step made a full-size task and a thumbnail task for one
\* reference and a task for another reference
C37_Witness ==
  /\ Ingested
  /\ \E p \in PostIds : \E i, j, t \in 1..Len(ing.uploads) :
       /\ ing.uploads[i].postId = p /\ ing.uploads[j].postId = p
       /\ ing.uploads[t].postId = p
       /\ ing.uploads[i].url = Attachment /\ ing.uploads[j].url = Thumbnail
       /\ ing.uploads[t].url \in {RawImage, RawVideo}
       /\ Cardinality(TaskKeysOf(p)) = 3

\* ------------------------------------------------------- re-ingestion
\* a page step that extracted the posts and derived every key
StepDone(rec) == rec.kind = "page" /\ rec.fault.extractOk /\ ~rec.threw

\* the keys of the upload tasks a page step made for a post, as strings
KeysOfStep(rec, postId) ==
  {Flat(rec.uploads[i].key) :
     i \in {j \in 1..Len(rec.uploads) : rec.uploads[j].postId = postId}}

\* the keys a page step stored an object under for a post, as strings
StoredOfStep(rec, postId) ==
  {Flat(rec.uploads[i].key) :
     i \in {j \in 1..Len(rec.uploads) :
              /\ rec.uploads[j].postId = postId
              /\ rec.uploads[j].key \in rec.stored}}

C33_NoDuplicateMediaRows ==
  \A i \in 1..Len(forum_medias) : \A j \in 1..Len(forum_medias) :
    (/\ forum_medias[i].postId = forum_medias[j].postId
     /\ forum_medias[i].link = forum_medias[j].link) => i = j

\* a step that saved a page once more, for posts that had rows
Resaved ==
  /\ ing.kind \in {"page", "save"}
  /\ ing.fault.extractOk
  /\ ~ing.threw
  /\ ing.scrapes >= 2

\* C32: when a page step saves a post that had media rows, every row the
\* step inserted for the post is in forum_medias once the step is over, and
\* every object the step stored is in the bucket: the step's own deletes ran
\* before its inserts and removed none of them.
C32_DeleteBeforeInsert ==
  Resaved =>
    /\ \A k \in 1..Len(ing.posts) :
         (/\ MediaOf(ing.before, ing.posts[k].postId) # <<>>
          /\ ing.posts[k].postId \notin ing.fault.dbDown) =>
           LET rows == MediaRows(ing.fault.threadId, ing.posts[k].postId,
                                 ing.map[k])
           IN \A r \in 1..Len(rows) :
                \E i \in 1..Len(forum_medias) : forum_medias[i] = rows[r]
    /\ ing.stored \subseteq ing.bucket

\* ------------------------------------------------------ listing checker
\* C31: when a crawl of a thread ends while the row's lastReplyDate is above
\* the one the worker read at selection (the listing checker raised it in the
\* meantime), the detailPageUpdateDate the worker writes is below the row's
\* lastReplyDate, so the next getThreadsNeedingUpdate selects the thread.
C31_LateReplyIsSelectedAgain ==
  [][\A w \in Procs :
       (pc[w] = "finish" /\ pc'[w] # "finish") =>
         LET t == cur[w].thread.threadId
         IN forum_threads[t].lastReplyDate > cur[w].thread.lastReplyDate =>
              /\ NeedsUpdate(forum_threads'[t])
              /\ forum_threads'[t].detailPageUpdateDate
                   < forum_threads'[t].lastReplyDate]_vars

\* a crawl has been completed and checkpointed while the listing checker had
\* raised lastReplyDate, and the thread still needs an update
C31_Witness ==
  \E w \in Procs :
    LET t == cur[w].thread.threadId
    IN /\ pc[w] = "pace"
       /\ obs[w].result = "completed"
       /\ forum_threads[t].detailPageUpdateDate = cur[w].thread.lastReplyDate
       /\ forum_threads[t].lastReplyDate > cur[w].thread.lastReplyDate
       /\ NeedsUpdate(forum_threads[t])

\* ------------------------------------------------------ memory monitoring
\* C34: whatever calls of initialize, restartBrowser and close a scraper
\* object has had, at most one of its memory-monitoring timers is active, and
\* none is active when close was the last call.
C34_AtMostOneTimer ==
  mon.pc # "off" =>
    /\ Cardinality(mon.timers) <= 1
    /\ mon.call = "close" => mon.timers = {}

\* C35: a tick of the memory monitor that reads an amount of available
\* memory runs the reboot command exactly when the amount is below
\* MIN_AVAILABLE_MEMORY_MB; at the floor or above it, it runs none.
C35_RebootBelowFloorOnly ==
  mon.last.kind = "sample" =>
    (mon.last.reboot <=>
       (~mon.last.available.nan
          /\ mon.last.available.v < MIN_AVAILABLE_MEMORY_MB))

\* a tick read one megabyte less than the floor and the host is restarting
C35_Witness ==
  /\ mon.pc = "rebooting"
  /\ mon.last.kind = "sample"
  /\ mon.last.available = Num(MIN_AVAILABLE_MEMORY_MB - 1)
  /\ mon.last.reboot

\* ------------------------------------------------------------ activeUploads
\* processUploadTask of task i has added the task id and has not returned
InProgress(i) == s3tasks.st[i] \in {"busy", "delay"}

\* C39: during processConcurrentUploads, activeUploads holds exactly the ids
\* of the tasks in progress, no two tasks in progress have the same id, and
\* activeUploads is empty once processConcurrentUploads has returned.
C39_ActiveUploadsTracksTasks ==
  s3tasks.pc # "off" =>
    /\ activeUploads =
         {s3tasks.ids[i] : i \in {j \in 1..Len(s3tasks.ids) : InProgress(j)}}
    /\ \A i \in 1..Len(s3tasks.ids) : \A j \in 1..Len(s3tasks.ids) :
         (InProgress(i) /\ InProgress(j) /\ s3tasks.ids[i] = s3tasks.ids[j])
           => i = j
    /\ s3tasks.pc = "returned" => activeUploads = {}

====
